---- MODULE Spec2Model ----
(***************************************************************************)
(* PDF metadata extraction and concurrent batch ingestion                  *)
(* (app/services/pdf_service.py, app/services/pdf_batch_processor.py).     *)
(*                                                                         *)
(* Two specifications share this module:                                   *)
(*   SpecExtract  PDFService.extract_text / extract_metadata applied to    *)
(*                every document of a bounded input space;                 *)
(*   Spec         PDFBatchProcessor.process_files: the caller thread, the  *)
(*                worker threads, the work queue, the lock, the storage    *)
(*                folder and the database session of each worker.          *)
(*   FairSpec     Spec with weak fairness: while some thread can take a    *)
(*                step, a step is eventually taken.                        *)
(*                                                                         *)
(* Strings extracted from a PDF are kept abstract: a text is known by the  *)
(* backend that produced it, its length, and the set of bibliographic      *)
(* fields the recognizers find in it.                                      *)
(***************************************************************************)
EXTENDS Integers, Sequences, FiniteSets, TLC

\* ------------------------------------------------------------- bounds
MaxFiles == 2        \* files in a batch: 0..MaxFiles
MaxWorkers == 2      \* max_workers given to the constructor: 1..MaxWorkers
MaxDocPages == 2     \* pages of a document: 0..MaxDocPages
MaxPieces == 3       \* pieces a text given to extract_year is made of
MaxCallers == 2      \* threads that use one UploadSession
MaxUpdates == 3      \* update_progress calls on one UploadSession
MaxProcessed == 3    \* processed given to update_progress: 0..MaxProcessed
MaxSessionFiles == 2 \* total_files of an UploadSession: 0..MaxSessionFiles
MaxRequestFiles == 11 \* entries 'pdfs' of an upload request: 0..MaxRequestFiles
MaxTitleLines == 2   \* non-blank lines of a text given to extract_title
MaxAbstractTokens == 4 \* tokens of a text given to extract_abstract
MaxKeywordChars == 4 \* characters after the lead of a text given to extract_keywords
MaxArticles == 1     \* Articulo rows: ids 1..MaxArticles
MaxAuthors == 2      \* Autor rows: ids 1..MaxAuthors
MaxLinkRows == 3     \* ArticuloAutor rows in the table
MaxClock == 3        \* readings of datetime.now(): 0..MaxClock
TicksPerHour == 2    \* clock readings in one hour
MaxAgeHours == 1     \* max_age_hours: 0..MaxAgeHours
MaxRegistryCalls == 3 \* calls made on the session registry

\* --------------------------------------------------- program constants
MIN_TEXT_LEN == 100        \* len(text) > 100
DEFAULT_MAX_PAGES == 5     \* extract_text(..., max_pages=5)
SAMPLE_CHARS == 2000       \* extract_year: text[:2000]
AUTHOR_LINES_FROM == 5     \* extract_authors: lines[5:30]
AUTHOR_LINES_TO == 30
AUTHOR_LINE_MAX == 200     \* extract_authors: len(line) < 200
AUTHOR_NAME_MIN == 3       \* extract_authors: len(author) > 3
AUTHOR_NAME_MAX == 50      \* extract_authors: len(author) < 50
AUTHORS_ENOUGH == 2        \* extract_authors: len(authors) >= 2
AUTHORS_CAP == 10          \* extract_authors: authors[:10]
TITLE_LINES == 20          \* extract_title: lines[:20]
TITLE_MIN_LEN == 10        \* extract_title: len(line) < 10
TITLE_MAX_LEN == 200       \* extract_title: len(line) > 200
TITLE_LONG_LEN == 30       \* extract_title: len(line) > 30
FALLBACK_LINES == 10       \* extract_title: lines[:10]
FALLBACK_MIN_LEN == 20     \* extract_title: len(line) > 20
ABSTRACT_MIN_LEN == 50     \* extract_abstract: 50 < len(abstract)
ABSTRACT_MAX_LEN == 2000   \* extract_abstract: len(abstract) < 2000
KEYWORDS_WINDOW == 500     \* extract_keywords: text[start:start + 500]
KEYWORD_MIN_LEN == 2       \* extract_keywords: len(kw.strip()) > 2
KEYWORDS_CAP == 15         \* extract_keywords: keywords[:15]
MAX_FILES == 10            \* upload_pdfs: MAX_FILES
MAX_UPLOAD_THREADS == 5    \* upload_pdfs: max_workers=min(5, len(files))
YEARS_BACK == 50           \* extract_year: current_year - 50

None == "None"

Min(a, b) == IF a < b THEN a ELSE b

RECURSIVE SumSeq(_)
SumSeq(s) == IF s = <<>> THEN 0 ELSE Head(s) + SumSeq(Tail(s))

Range(s) == {s[i] : i \in DOMAIN s}

\* =====================================================================
\* PDFService.extract_text
\* =====================================================================

Backends == <<"pdfplumber", "PyPDF2", "pikepdf">>

\* Lengths of the text one backend reads from one page; 0 is a page whose
\* text is empty or None (pikepdf: a page without /Contents).
\* 49 + 2 + 49 = 100 and 49 + 2 + 50 = 101 straddle the threshold.
PageLens == {0, 49, 50}

Suffixes == {".pdf", ".PDF", ".txt", ""}

\* str.lower() on the suffixes above
Lower(s) == CASE s = ".PDF" -> ".pdf"
              [] OTHER -> s

\* the six fields counted by the confidence score, and the two others
CoreFields == {"titulo", "autores", "anio_publicacion", "doi", "issn", "resumen"}
ListFields == {"autores", "palabras_clave", "emails"}
AllFields == CoreFields \cup {"palabras_clave", "emails"}

\* What one backend does on one document: it raises, or reads the pages.
BackendOutcomes(n) ==
    {[raises |-> TRUE, lens |-> <<>>]} \cup
    {[raises |-> FALSE, lens |-> l] : l \in [1..n -> PageLens]}

\* A document on disk (or a path that names none).
Docs(existsSet, suffixSet, hasSet) ==
    UNION {[exists : existsSet, suffix : suffixSet, has : hasSet,
            out : [{"pdfplumber", "PyPDF2", "pikepdf"} -> BackendOutcomes(n)]]
           : n \in 0..MaxDocPages}

\* One existing document, by what each strategy does on it.
PdfOf(suffix, has, o1, o2, o3) ==
    [exists |-> TRUE, suffix |-> suffix, has |-> has,
     out |-> [b \in {"pdfplumber", "PyPDF2", "pikepdf"} |->
                IF b = "pdfplumber" THEN o1 ELSE IF b = "PyPDF2" THEN o2 ELSE o3]]

Reads(lens) == [raises |-> FALSE, lens |-> lens]
Raises == [raises |-> TRUE, lens |-> <<>>]

NoText == [by |-> None, len |-> 0, has |-> {}]

\* '\n\n'.join(text_parts) if text_parts else None, over pages[:max_pages]
\* whose text is truthy
JoinPages(lens, max_pages) ==
    LET used  == SubSeq(lens, 1, Min(Len(lens), max_pages))
        parts == SelectSeq(used, LAMBDA n : n > 0)
    IN IF parts = <<>>
       THEN [raised |-> FALSE, isNone |-> TRUE, len |-> 0]
       ELSE [raised |-> FALSE, isNone |-> FALSE,
             len |-> SumSeq(parts) + 2 * (Len(parts) - 1)]

BackendRaised == [raised |-> TRUE, isNone |-> TRUE, len |-> 0]

extract_with_pdfplumber(doc, max_pages) ==
    IF doc.out["pdfplumber"].raises THEN BackendRaised
    ELSE JoinPages(doc.out["pdfplumber"].lens, max_pages)

extract_with_pypdf2(doc, max_pages) ==
    IF doc.out["PyPDF2"].raises THEN BackendRaised
    ELSE JoinPages(doc.out["PyPDF2"].lens, max_pages)

extract_with_pikepdf(doc, max_pages) ==
    IF doc.out["pikepdf"].raises THEN BackendRaised
    ELSE JoinPages(doc.out["pikepdf"].lens, max_pages)

\* Faulty variant: the threshold test written >= instead of >
AcceptedAtLeast(r) == ~r.raised /\ ~r.isNone /\ r.len >= MIN_TEXT_LEN

\* `if text and len(text) > 100` inside try/except Exception
Accepted(r) == ~r.raised /\ ~r.isNone /\ r.len > MIN_TEXT_LEN

TextFailure(msg, calls) ==
    [raised |-> FALSE, success |-> FALSE, text |-> NoText, error |-> msg,
     calls |-> calls]

TextSuccess(doc, backend, r, calls) ==
    [raised |-> FALSE, success |-> TRUE,
     text |-> [by |-> backend, len |-> r.len, has |-> doc.has],
     error |-> None, calls |-> calls]

MsgNotFound == "Archivo no encontrado"
MsgNotPdf == "El archivo no es un PDF"
MsgNoText == "No se pudo extraer texto del PDF. Puede estar protegido o ser una imagen."

\* pdf_file.suffix.lower() == '.pdf'
IsPdfSuffix(suffix) == Lower(suffix) = ".pdf"

\* Faulty variant: the second strategy runs outside try/except, so that its
\* exception leaves extract_text
TryBackendsUnguarded(doc, max_pages) ==
    LET r1 == extract_with_pdfplumber(doc, max_pages)
        r2 == extract_with_pypdf2(doc, max_pages)
        r3 == extract_with_pikepdf(doc, max_pages)
    IN IF Accepted(r1)
       THEN TextSuccess(doc, "pdfplumber", r1, <<"pdfplumber">>)
       ELSE IF r2.raised
       THEN [TextFailure(None, <<"pdfplumber", "PyPDF2">>) EXCEPT !.raised = TRUE]
       ELSE IF Accepted(r2)
       THEN TextSuccess(doc, "PyPDF2", r2, <<"pdfplumber", "PyPDF2">>)
       ELSE IF Accepted(r3)
       THEN TextSuccess(doc, "pikepdf", r3, Backends)
       ELSE TextFailure(MsgNoText, Backends)

\* The three strategies, in order.  calls is the sequence of backends
\* invoked (not part of the Python value; kept to state what was tried).
TryBackends(doc, max_pages) ==
    LET r1 == extract_with_pdfplumber(doc, max_pages)
        r2 == extract_with_pypdf2(doc, max_pages)
        r3 == extract_with_pikepdf(doc, max_pages)
    IN IF Accepted(r1)
       THEN TextSuccess(doc, "pdfplumber", r1, <<"pdfplumber">>)
       ELSE IF Accepted(r2)
       THEN TextSuccess(doc, "PyPDF2", r2, <<"pdfplumber", "PyPDF2">>)
       ELSE IF Accepted(r3)
       THEN TextSuccess(doc, "pikepdf", r3, Backends)
       ELSE TextFailure(MsgNoText, Backends)

\* Faulty variant: the preconditions are checked after the first strategy ran
extract_text_late_checks(doc, max_pages) ==
    LET r == TryBackends(doc, max_pages)
    IN IF ~doc.exists THEN TextFailure(MsgNotFound, <<"pdfplumber">>)
       ELSE IF ~IsPdfSuffix(doc.suffix) THEN TextFailure(MsgNotPdf, <<"pdfplumber">>)
       ELSE r

extract_text(doc, max_pages) ==
    IF ~doc.exists THEN TextFailure(MsgNotFound, <<>>)
    ELSE IF ~IsPdfSuffix(doc.suffix) THEN TextFailure(MsgNotPdf, <<>>)
    ELSE TryBackends(doc, max_pages)

\* =====================================================================
\* PDFService.extract_metadata
\* =====================================================================

\* The value a field recognizer returns on a text: the field's empty default
\* when the text does not hold the field.
Recognize(field, text) ==
    IF field \in text.has
    THEN (IF field \in ListFields THEN <<field>> ELSE field)
    ELSE (IF field \in ListFields THEN <<>> ELSE None)

\* bool(value) of the value a recognizer returned for a field
Truthy(field, v) == IF field \in ListFields THEN v # <<>> ELSE v # None

MetadataDefault ==
    [titulo |-> None, autores |-> <<>>, anio_publicacion |-> None,
     doi |-> None, issn |-> None, resumen |-> None,
     palabras_clave |-> <<>>, emails |-> <<>>,
     success |-> FALSE, error |-> None, confidence |-> 0,
     raised |-> FALSE, recognizers |-> {}]

\* Faulty variant: the score counts palabras_clave and emails too
MetadataFromCountsAll(text) ==
    LET v == [f \in AllFields |-> Recognize(f, text)]
    IN [titulo |-> v["titulo"], autores |-> v["autores"],
        anio_publicacion |-> v["anio_publicacion"],
        doi |-> v["doi"], issn |-> v["issn"], resumen |-> v["resumen"],
        palabras_clave |-> v["palabras_clave"], emails |-> v["emails"],
        success |-> TRUE, error |-> None,
        confidence |-> Cardinality({f \in AllFields : Truthy(f, v[f])}),
        raised |-> FALSE, recognizers |-> AllFields]

\* confidence is kept as its numerator: confidence = fields_found / 6.0
MetadataFrom(text) ==
    LET v == [f \in AllFields |-> Recognize(f, text)]
    IN [titulo |-> v["titulo"], autores |-> v["autores"],
        anio_publicacion |-> v["anio_publicacion"],
        doi |-> v["doi"], issn |-> v["issn"], resumen |-> v["resumen"],
        palabras_clave |-> v["palabras_clave"], emails |-> v["emails"],
        success |-> TRUE, error |-> None,
        confidence |-> Cardinality({f \in CoreFields : Truthy(f, v[f])}),
        raised |-> FALSE, recognizers |-> AllFields]

\* Faulty variant: the recognizers run on whatever text came back, failure or not
extract_metadata_always_recognizes(doc) ==
    LET r == extract_text(doc, DEFAULT_MAX_PAGES)
    IN [MetadataFrom([r.text EXCEPT !.has = doc.has])
          EXCEPT !.success = r.success, !.error = r.error]

extract_metadata(doc) ==
    LET r == extract_text(doc, DEFAULT_MAX_PAGES)
    IN IF r.raised THEN [MetadataDefault EXCEPT !.raised = TRUE]
       ELSE IF ~r.success THEN [MetadataDefault EXCEPT !.error = r.error]
       ELSE MetadataFrom(r.text)

\* the order in which extract_metadata calls the eight recognizers
RecognizerOrder ==
    <<"titulo", "autores", "anio_publicacion", "doi", "issn", "resumen",
      "palabras_clave", "emails">>

IndexOf(f) == CHOOSE i \in DOMAIN RecognizerOrder : RecognizerOrder[i] = f

\* the empty default of a field
FieldDefault(f) == IF f \in ListFields THEN <<>> ELSE None

\* extract_metadata when the recognizer of field f raises on the extracted
\* text: there is no try/except around the recognizer calls, so the exception
\* leaves extract_metadata (raised) and no result is returned.  The record
\* is the result dictionary as it stood when the exception was raised.
extract_metadata_recognizer_raises(doc, f) ==
    LET r == extract_text(doc, DEFAULT_MAX_PAGES)
        m == MetadataFrom(r.text)
    IN IF ~r.success THEN extract_metadata(doc)
       ELSE [k \in DOMAIN MetadataDefault |->
               IF k \in AllFields
               THEN (IF IndexOf(k) < IndexOf(f) THEN m[k] ELSE FieldDefault(k))
               ELSE IF k = "success" THEN TRUE
               ELSE IF k = "raised" THEN TRUE
               ELSE IF k = "recognizers"
               THEN {g \in AllFields : IndexOf(g) <= IndexOf(f)}
               ELSE MetadataDefault[k]]

\* =====================================================================
\* The field recognizers on character strings
\* =====================================================================
\* A string is the sequence of its characters.  A text given to a
\* recognizer is None (none) or pad spaces followed by chars (the pad stands
\* for the part of a long text that holds nothing of interest).  What a
\* recognizer returns is None, an int, a str or a list, or it raises.

Digits == {"0", "1", "2", "3", "4", "5", "6", "7", "8", "9"}
DigitChars == <<"0", "1", "2", "3", "4", "5", "6", "7", "8", "9">>
Letters == {"a", "b", "d", "g", "h", "i", "n", "o", "p", "r", "s", "t", "x",
            "D", "I", "N", "O", "S", "X"}
Whitespace == {" ", "\t", "\n"}

\* \d, \w and \s on the characters above
IsDigit(c) == c \in Digits
IsWordChar(c) == c \in Digits \cup Letters \cup {"_"}
IsSpace(c) == c \in Whitespace

DigitVal(c) == (CHOOSE i \in DOMAIN DigitChars : DigitChars[i] = c) - 1

RECURSIVE Concat(_)
Concat(ps) == IF ps = <<>> THEN <<>> ELSE Head(ps) \o Concat(Tail(ps))

Text(pad, chars) == [none |-> FALSE, pad |-> pad, chars |-> chars]
EmptyText == Text(0, <<>>)
NoneText == [none |-> TRUE, pad |-> 0, chars |-> <<>>]

\* `not text`: None or the empty string
Falsy(text) == text.none \/ (text.pad = 0 /\ text.chars = <<>>)

RNone == [kind |-> "none"]
RInt(n) == [kind |-> "int", int |-> n]
RStr(cs) == [kind |-> "str", str |-> cs]
RList(l) == [kind |-> "list", list |-> l]
RRaised == [kind |-> "raised"]

\* ---------------------------------------------------------- extract_year
\* text[:2000], as the characters of chars that fall inside the sample
Sample(text) ==
    LET room == IF text.pad >= SAMPLE_CHARS THEN 0 ELSE SAMPLE_CHARS - text.pad
    IN SubSeq(text.chars, 1, Min(Len(text.chars), room))

\* YEAR_PATTERN \b(19\d{2}|20[0-2]\d)\b matches s at position i
YearMatchAt(s, i) ==
    /\ i >= 1 /\ i + 3 <= Len(s)
    /\ \/ s[i] = "1" /\ s[i+1] = "9" /\ IsDigit(s[i+2]) /\ IsDigit(s[i+3])
       \/ s[i] = "2" /\ s[i+1] = "0" /\ s[i+2] \in {"0", "1", "2"} /\ IsDigit(s[i+3])
    /\ (i = 1 \/ ~IsWordChar(s[i-1]))
    /\ (i + 3 = Len(s) \/ ~IsWordChar(s[i+4]))

\* int(y) of the four digits at position i
YearValAt(s, i) ==
    1000 * DigitVal(s[i]) + 100 * DigitVal(s[i+1]) + 10 * DigitVal(s[i+2])
      + DigitVal(s[i+3])

\* YEAR_PATTERN.findall(s): the matches from left to right, none overlapping
RECURSIVE FindAllYears(_, _)
FindAllYears(s, i) ==
    IF i > Len(s) THEN <<>>
    ELSE IF YearMatchAt(s, i) THEN <<YearValAt(s, i)>> \o FindAllYears(s, i + 4)
    ELSE FindAllYears(s, i + 1)

\* Faulty variant: years in the future are kept
YearInRangeOpen(y, now) == now - YEARS_BACK <= y

\* current_year - 50 <= int(y) <= current_year + 1
YearInRange(y, now) == now - YEARS_BACK <= y /\ y <= now + 1

MaxOf(S) == CHOOSE m \in S : \A n \in S : n <= m

extract_year(text, now) ==
    IF Falsy(text) THEN RNone
    ELSE LET years == FindAllYears(Sample(text), 1)
             valid_years == SelectSeq(years, LAMBDA y : YearInRange(y, now))
         IN IF years # <<>> /\ valid_years # <<>>
            THEN RInt(MaxOf(Range(valid_years)))
            ELSE RNone

\* the literals of DOI_PATTERN, lower case, and the characters
\* extract_doi strips from the end of a match
DOI_LABEL == <<"d", "o", "i">>
DOI_URL == <<"h", "t", "t", "p", ":", "/", "/", "d", "o", "i", ".", "o", "r", "g", "/">>
DOI_URL_S == <<"h", "t", "t", "p", "s", ":", "/", "/", "d", "o", "i", ".", "o", "r", "g", "/">>
DOI_URL_DX == <<"h", "t", "t", "p", ":", "/", "/", "d", "x", ".", "d", "o", "i", ".", "o", "r", "g", "/">>
DOI_URL_S_DX == <<"h", "t", "t", "p", "s", ":", "/", "/", "d", "x", ".", "d", "o", "i", ".", "o", "r", "g", "/">>
DOI_HEAD == <<"1", "0", ".">>
DOI_MIN_DIGITS == 4
DOI_STRIP == {".", ",", ";", ":", ")", "]", "}", " "}

\* ----------------------------------------------------------- extract_doi
\* str.lower() of one character (re.IGNORECASE)
LowerChar(c) ==
    CASE c = "D" -> "d" [] c = "I" -> "i" [] c = "N" -> "n" [] c = "O" -> "o"
      [] c = "S" -> "s" [] c = "X" -> "x" [] OTHER -> c

\* s holds the literal lit at position i, case ignored
LiteralAt(s, i, lit) ==
    /\ i >= 1 /\ i + Len(lit) - 1 <= Len(s)
    /\ \A k \in 1..Len(lit) : LowerChar(s[i + k - 1]) = lit[k]

\* the length of the longest run of characters satisfying Test from position i
RunLength(s, i, Test(_)) ==
    IF i < 1 \/ i > Len(s) THEN 0
    ELSE LET ends == {k \in i - 1..Len(s) : \A m \in i..k : Test(s[m])}
         IN (CHOOSE k \in ends : \A m \in ends : m <= k) - (i - 1)

IsDoiSeparator(c) == c = ":" \/ IsSpace(c)
IsNonSpace(c) == ~IsSpace(c)

\* (10\.\d{4,}/[^\s]+) at position j: the position of its last character,
\* 0 when it does not match.  \d{4,} and [^\s]+ are greedy, and giving back
\* digits never helps: the character after a shorter run is a digit, not "/".
DoiCoreEnd(s, j) ==
    LET n == RunLength(s, j + 3, IsDigit)
        m == RunLength(s, j + 3 + n + 1, IsNonSpace)
    IN IF /\ LiteralAt(s, j, DOI_HEAD)
          /\ n >= DOI_MIN_DIGITS
          /\ LiteralAt(s, j + 3 + n, <<"/">>)
          /\ m >= 1
       THEN j + 3 + n + m
       ELSE 0

\* where group 1 may start when the match starts at i, in the order the
\* regex engine tries: doi[:\s]* (longest run of separators first), the
\* doi.org address with or without dx., then no prefix at all
DoiCoreStarts(s, i) ==
    (IF LiteralAt(s, i, DOI_LABEL)
     THEN LET n == RunLength(s, i + 3, IsDoiSeparator)
          IN [k \in 1..n + 1 |-> i + 3 + n + 1 - k]
     ELSE <<>>)
    \o SelectSeq(<<i + Len(DOI_URL_S_DX), i + Len(DOI_URL_S), i + Len(DOI_URL_DX),
                   i + Len(DOI_URL)>>,
                 LAMBDA j : \/ (j = i + Len(DOI_URL_S_DX) /\ LiteralAt(s, i, DOI_URL_S_DX))
                            \/ (j = i + Len(DOI_URL_S) /\ LiteralAt(s, i, DOI_URL_S))
                            \/ (j = i + Len(DOI_URL_DX) /\ LiteralAt(s, i, DOI_URL_DX))
                            \/ (j = i + Len(DOI_URL) /\ LiteralAt(s, i, DOI_URL)))
    \o <<i>>

\* the pattern matched at position i: <<start, end>> of group 1, <<>> if none
DoiMatchAt(s, i) ==
    LET starts == SelectSeq(DoiCoreStarts(s, i), LAMBDA j : DoiCoreEnd(s, j) > 0)
    IN IF starts = <<>> THEN <<>> ELSE <<Head(starts), DoiCoreEnd(s, Head(starts))>>

\* DOI_PATTERN.search(s): the match at the leftmost position that has one
DoiSearch(s) ==
    LET at == {i \in 1..Len(s) : DoiMatchAt(s, i) # <<>>}
    IN IF at = {} THEN <<>>
       ELSE DoiMatchAt(s, CHOOSE i \in at : \A k \in at : i <= k)

\* Faulty variant: one trailing character is removed, not all of them
RStripOnce(s, chars) ==
    IF s # <<>> /\ s[Len(s)] \in chars THEN SubSeq(s, 1, Len(s) - 1) ELSE s

\* str.rstrip(chars)
RECURSIVE RStrip(_, _)
RStrip(s, chars) ==
    IF s # <<>> /\ s[Len(s)] \in chars THEN RStrip(SubSeq(s, 1, Len(s) - 1), chars)
    ELSE s

extract_doi(text) ==
    IF Falsy(text) THEN RNone
    ELSE LET match == DoiSearch(text.chars)
         IN IF match # <<>>
            THEN RStr(RStrip(SubSeq(text.chars, match[1], match[2]), DOI_STRIP))
            ELSE RNone

\* ---------------------------------------------------------- extract_issn
ISSN_LABEL == <<"i", "s", "s", "n">>

IsIssnLabelSeparator(c) == c = ":" \/ IsSpace(c)
IsIssnCheckChar(c) == IsDigit(c) \/ c = "X" \/ c = "x"

\* n digits stand at positions i .. i+n-1 of s
DigitsAt(s, i, n) == i >= 1 /\ i + n - 1 <= Len(s) /\ \A k \in i..i + n - 1 : IsDigit(s[k])

\* (\d{4}[-\s]?\d{3}[\dXx]) at position j: the position of its last
\* character, 0 when it does not match; the optional separator is tried first
IssnGroupEnd(s, j) ==
    IF ~DigitsAt(s, j, 4) THEN 0
    ELSE IF /\ j + 8 <= Len(s)
            /\ (s[j + 4] = "-" \/ IsSpace(s[j + 4]))
            /\ DigitsAt(s, j + 5, 3)
            /\ IsIssnCheckChar(s[j + 8])
    THEN j + 8
    ELSE IF j + 7 <= Len(s) /\ DigitsAt(s, j + 4, 3) /\ IsIssnCheckChar(s[j + 7])
    THEN j + 7
    ELSE 0

\* the pattern matched at position i: <<start, end>> of group 1, <<>> if none
IssnMatchAt(s, i) ==
    IF ~LiteralAt(s, i, ISSN_LABEL) THEN <<>>
    ELSE LET n == RunLength(s, i + 4, IsIssnLabelSeparator)
             starts == SelectSeq([k \in 1..n + 1 |-> i + 4 + n + 1 - k],
                                 LAMBDA j : IssnGroupEnd(s, j) > 0)
         IN IF starts = <<>> THEN <<>>
            ELSE <<Head(starts), IssnGroupEnd(s, Head(starts))>>

\* ISSN_PATTERN.search(s)
IssnSearch(s) ==
    LET at == {i \in 1..Len(s) : IssnMatchAt(s, i) # <<>>}
    IN IF at = {} THEN <<>>
       ELSE IssnMatchAt(s, CHOOSE i \in at : \A k \in at : i <= k)

\* issn.replace(' ', '-')
ReplaceSpaces(s) == [k \in DOMAIN s |-> IF s[k] = " " THEN "-" ELSE s[k]]

\* if '-' not in issn and len(issn) == 8: issn = f"{issn[:4]}-{issn[4:]}"
IssnHyphenated(s) ==
    IF "-" \notin Range(s) /\ Len(s) = 8
    THEN SubSeq(s, 1, 4) \o <<"-">> \o SubSeq(s, 5, 8)
    ELSE s

extract_issn(text) ==
    IF Falsy(text) THEN RNone
    ELSE LET match == IssnSearch(text.chars)
         IN IF match # <<>>
            THEN RStr(IssnHyphenated(ReplaceSpaces(
                        SubSeq(text.chars, match[1], match[2]))))
            ELSE RNone

\* -------------------------------------------------------- extract_authors
\* For extract_authors a text is seen by its lines: skip lines that hold no
\* comma, followed by lines; a line is the sequence of the parts its commas
\* separate, each part (stripped) one of the strings below.
LineText(skip, lines) == [none |-> FALSE, skip |-> skip, lines |-> lines]
EmptyLines == LineText(0, <<>>)
NoneLines == [none |-> TRUE, skip |-> 0, lines |-> <<>>]

FalsyLines(text) == text.none \/ (text.skip = 0 /\ text.lines = <<>>)

\* len(part) and any(c.isupper() for c in part) of the parts used
PartLen(part) ==
    CASE part = "Ana Ruiz" -> 8 [] part = "Luis Gil" -> 8 [] part = "Eva Sol" -> 7
      [] part = "et al" -> 5 [] part = "Li" -> 2
      [] part = "Universidad" -> 210

PartHasUpper(part) == part # "et al"

\* len(line): the parts, and ", " between them
LineLen(line) == SumSeq([k \in DOMAIN line |-> PartLen(line[k])]) + 2 * (Len(line) - 1)

\* the authors one line contributes
LineAuthors(line) ==
    IF /\ Len(line) >= 2
       /\ LineLen(line) < AUTHOR_LINE_MAX
       /\ \E k \in DOMAIN line : PartHasUpper(line[k])
    THEN SelectSeq(line, LAMBDA a : /\ PartLen(a) > AUTHOR_NAME_MIN
                                    /\ PartLen(a) < AUTHOR_NAME_MAX
                                    /\ PartHasUpper(a))
    ELSE <<>>

\* the loop over lines[5:30]: line k of text.lines is line skip + k of the
\* text (counted from 1); the loop stops once two authors were collected
RECURSIVE CollectAuthors(_, _, _)
CollectAuthors(text, k, authors) ==
    IF k > Len(text.lines) \/ text.skip + k > AUTHOR_LINES_TO THEN authors
    ELSE IF text.skip + k <= AUTHOR_LINES_FROM THEN CollectAuthors(text, k + 1, authors)
    ELSE LET found == authors \o LineAuthors(text.lines[k])
         IN IF Len(found) >= AUTHORS_ENOUGH THEN found
            ELSE CollectAuthors(text, k + 1, found)

\* authors[:10]
AuthorsFound(text) ==
    LET authors == CollectAuthors(text, 1, <<>>)
    IN SubSeq(authors, 1, Min(Len(authors), AUTHORS_CAP))

\* list(set(xs)): the distinct elements of xs, in the iteration order of a
\* set of str, which depends on the hash seed of the process: any order
ListOfSet(xs) ==
    {l \in [1..Cardinality(Range(xs)) -> Range(xs)] : Range(l) = Range(xs)}

\* the lists extract_authors may return
extract_authors(text) ==
    IF FalsyLines(text) THEN {RList(<<>>)}
    ELSE {RList(l) : l \in ListOfSet(AuthorsFound(text))}

\* ----------------------------------------------------------- extract_title
\* For extract_title a text is seen by its lines, as for extract_authors:
\* skip blank lines, followed by lines.  A line is known by what the
\* function looks at: the length of line.strip(), line.isupper(), whether
\* line.lower() holds one of 'issn', 'volume', 'journal', 'revista', 'doi',
\* and how the line starts.
TitleLine(len, upper, header, starts) ==
    [len |-> len, upper |-> upper, header |-> header, starts |-> starts]
BlankLine == TitleLine(0, FALSE, FALSE, "")

RLine(line) == [kind |-> "line", line |-> line]

\* lines[i] of text.split('\n'), i counted from 0
LineAt(text, i) ==
    IF i < text.skip THEN BlankLine ELSE text.lines[i - text.skip + 1]

NumLines(text) == text.skip + Len(text.lines)

\* the tests a line passes to be appended to title_candidates
IsTitleCandidate(line) ==
    /\ ~(line.len < TITLE_MIN_LEN \/ line.len > TITLE_MAX_LEN)
    /\ ~line.header
    /\ (line.upper \/ line.len > TITLE_LONG_LEN)

\* title_candidates: (i, line, len(line))
TitleCandidates(text) ==
    {<<i, LineAt(text, i), LineAt(text, i).len>> :
       i \in {j \in 0..(Min(NumLines(text), TITLE_LINES) - 1) :
                IsTitleCandidate(LineAt(text, j))}}

\* Faulty variant: the longest candidate comes first
SortsBeforeByLength(c, d) == c[3] > d[3] \/ (c[3] = d[3] /\ c[1] <= d[1])

\* c is not after d once sorted by key (x[0] * -1, x[2]), reverse=True
SortsBefore(c, d) ==
    \/ c[1] * (-1) > d[1] * (-1)
    \/ (c[1] * (-1) = d[1] * (-1) /\ c[3] >= d[3])

\* the line a fallback accepts
IsFallbackLine(line) ==
    line.len > FALLBACK_MIN_LEN /\ line.starts \notin {"http", "www", "doi"}

extract_title(text) ==
    IF FalsyLines(text) THEN RNone
    ELSE LET cands == TitleCandidates(text)
             falls == {i \in 0..(Min(NumLines(text), FALLBACK_LINES) - 1) :
                         IsFallbackLine(LineAt(text, i))}
         IN IF cands # {}
            THEN RLine((CHOOSE c \in cands : \A d \in cands : SortsBefore(c, d))[2])
            ELSE IF falls # {}
            THEN RLine(LineAt(text, CHOOSE i \in falls : \A j \in falls : i <= j))
            ELSE RNone

\* -------------------------------------------------------- extract_abstract
\* For extract_abstract a text is a sequence of tokens: a section word
\* (its lower-case form is t), a run of whitespace ("gap") or other text
\* ("body") of the length given.  A section word is made of word
\* characters; a body starts and ends with a character that is neither a
\* word character nor whitespace.
Token(t, len) == [t |-> t, len |-> len]
TokenText(tokens) == [none |-> FALSE, tokens |-> tokens]
NoneTokens == [none |-> TRUE, tokens |-> <<>>]
FalsyTokens(text) == text.none \/ text.tokens = <<>>

RTokens(tokens) == [kind |-> "text", tokens |-> tokens]

\* accents left out
ABSTRACT_KEYWORDS ==
    <<"abstract", "resumen", "resumo", "resume", "summary", "sintesis">>
KEYWORDS_SECTION ==
    <<"keywords", "palabras clave", "key words", "palabras-clave", "terminos",
      "descriptores">>
INTRODUCTION_KEYWORDS ==
    <<"introduction", "introduccion", "introducao", "1. introduction",
      "1 introduction">>

IsWordToken(tok) == tok.t \notin {"gap", "body"}

\* \b on both sides of token i
WholeWordAt(tokens, i) ==
    /\ i = 1 \/ ~IsWordToken(tokens[i - 1])
    /\ i = Len(tokens) \/ ~IsWordToken(tokens[i + 1])

\* re.search(rf'\b{keyword}\b', ...) in the tokens after position from:
\* the positions of the matches
Matches(tokens, keyword, from) ==
    {i \in (from + 1)..Len(tokens) : tokens[i].t = keyword /\ WholeWordAt(tokens, i)}

MinOf(S) == CHOOSE x \in S : \A y \in S : x <= y

\* the loop over ABSTRACT_KEYWORDS: the token after which the abstract
\* starts, 0 when no keyword matches
AbstractStart(tokens) ==
    LET found == {k \in DOMAIN ABSTRACT_KEYWORDS :
                    Matches(tokens, ABSTRACT_KEYWORDS[k], 0) # {}}
    IN IF found = {} THEN 0
       ELSE MinOf(Matches(tokens, ABSTRACT_KEYWORDS[MinOf(found)], 0))

\* the loop over KEYWORDS_SECTION + INTRODUCTION_KEYWORDS: the token at
\* which the abstract ends, Len(tokens) + 1 when no marker follows
AbstractEnd(tokens, start) ==
    LET markers == KEYWORDS_SECTION \o INTRODUCTION_KEYWORDS
        ends == UNION {Matches(tokens, markers[k], start) : k \in DOMAIN markers}
    IN IF ends = {} THEN Len(tokens) + 1 ELSE MinOf(ends)

\* str.strip() of a sequence of tokens
RECURSIVE StripTokens(_)
StripTokens(tokens) ==
    IF tokens = <<>> THEN <<>>
    ELSE IF Head(tokens).t = "gap" THEN StripTokens(Tail(tokens))
    ELSE IF tokens[Len(tokens)].t = "gap"
    THEN StripTokens(SubSeq(tokens, 1, Len(tokens) - 1))
    ELSE tokens

\* re.sub(r'\s+', ' ', ...): every run of whitespace becomes one space
RECURSIVE CollapseGaps(_)
CollapseGaps(tokens) ==
    IF tokens = <<>> THEN <<>>
    ELSE IF Head(tokens).t = "gap"
    THEN IF Len(tokens) > 1 /\ tokens[2].t = "gap"
         THEN CollapseGaps(Tail(tokens))
         ELSE <<Token("gap", 1)>> \o CollapseGaps(Tail(tokens))
    ELSE <<Head(tokens)>> \o CollapseGaps(Tail(tokens))

TokensLen(tokens) == SumSeq([k \in DOMAIN tokens |-> tokens[k].len])

extract_abstract(text) ==
    IF FalsyTokens(text) THEN RNone
    ELSE LET start == AbstractStart(text.tokens)
         IN IF start = 0 THEN RNone
            ELSE LET end == AbstractEnd(text.tokens, start)
                     abstract == CollapseGaps(StripTokens(
                                     SubSeq(text.tokens, start + 1, end - 1)))
                 IN IF /\ ABSTRACT_MIN_LEN < TokensLen(abstract)
                       /\ TokensLen(abstract) < ABSTRACT_MAX_LEN
                    THEN RTokens(abstract)
                    ELSE RNone

\* -------------------------------------------------------- extract_keywords
\* For extract_keywords a text is a sequence of characters in which a
\* section word (an entry of KEYWORDS_SECTION, in any case) stands as one
\* element.
IsSectionWord(c) == c \in Range(KEYWORDS_SECTION)

\* text.lower(): the section words of the texts are in lower case but for
\* 'Keywords'
TextLower(chars) ==
    [i \in DOMAIN chars |-> IF chars[i] = "Keywords" THEN "keywords" ELSE chars[i]]
IsWordElement(c) == IsWordChar(c) \/ IsSectionWord(c)

\* rf'\b{keyword}\b' matches at element i
SectionWordAt(s, i, keyword) ==
    /\ s[i] = keyword
    /\ i = 1 \/ ~IsWordElement(s[i - 1])
    /\ i = Len(s) \/ ~IsWordElement(s[i + 1])

IsColonOrSpace(c) == c = ":" \/ IsSpace(c)

\* the loop over KEYWORDS_SECTION: keywords_start as the position of the
\* first character after the match of rf'\b{keyword}\b[:\s]*'; 0 when no
\* entry matches
KeywordsStart(s) ==
    LET At(k) == {i \in DOMAIN s : SectionWordAt(s, i, KEYWORDS_SECTION[k])}
        found == {k \in DOMAIN KEYWORDS_SECTION : At(k) # {}}
    IN IF found = {} THEN 0
       ELSE LET i == MinOf(At(MinOf(found)))
            IN i + 1 + RunLength(s, i + 1, IsColonOrSpace)

\* text[keywords_start:keywords_start + 500]
KeywordsWindow(s, start) ==
    SubSeq(s, start, Min(Len(s), start + KEYWORDS_WINDOW - 1))

\* r'\.\s*\n|\n\n' matches at position j
EndMatchAt(w, j) ==
    \/ /\ w[j] = "."
       /\ \E k \in (j + 1)..Len(w) :
            w[k] = "\n" /\ \A m \in (j + 1)..(k - 1) : IsSpace(w[m])
    \/ /\ w[j] = "\n"
       /\ j < Len(w) /\ w[j + 1] = "\n"

\* keywords_text[:end_match.start()]
CutAtEnd(w) ==
    LET ends == {j \in DOMAIN w : EndMatchAt(w, j)}
    IN IF ends = {} THEN w ELSE SubSeq(w, 1, MinOf(ends) - 1)

\* the bullet is left out
IsKeywordSeparator(c) == c \in {",", ";", "\n"}

\* re.split(r'[,;\n]', keywords_text)
RECURSIVE SplitKeywords(_)
SplitKeywords(w) ==
    LET seps == {j \in DOMAIN w : IsKeywordSeparator(w[j])}
    IN IF seps = {} THEN <<w>>
       ELSE <<SubSeq(w, 1, MinOf(seps) - 1)>>
            \o SplitKeywords(SubSeq(w, MinOf(seps) + 1, Len(w)))

RECURSIVE LStrip(_, _)
LStrip(s, chars) ==
    IF s # <<>> /\ s[1] \in chars THEN LStrip(Tail(s), chars) ELSE s

\* str.strip(), str.strip(chars)
Strip(s, chars) == RStrip(LStrip(s, chars), chars)

\* keywords[:15]
CapKeywords(keywords) == SubSeq(keywords, 1, Min(Len(keywords), KEYWORDS_CAP))

extract_keywords(text) ==
    IF Falsy(text) THEN RList(<<>>)
    ELSE LET start == KeywordsStart(TextLower(text.chars))
         IN IF start = 0 THEN RList(<<>>)
            ELSE LET parts == SplitKeywords(CutAtEnd(KeywordsWindow(text.chars, start)))
                     kept == SelectSeq(parts, LAMBDA kw :
                                 /\ Strip(kw, Whitespace) # <<>>
                                 /\ Len(Strip(kw, Whitespace)) > KEYWORD_MIN_LEN)
                     keywords == [k \in DOMAIN kept |->
                                    Strip(Strip(Strip(kept[k], Whitespace), {"."}),
                                          Whitespace)]
                 IN RList(CapKeywords(keywords))

\* ----------------------------------------------------------- extract_emails
\* Only the guard on the text is modelled; found is what the scan of a
\* non-empty text comes up with.
\* Faulty variant: no e-mail is reported as None, not as an empty list
extract_emails_none(text, found) == IF Falsy(text) THEN RNone ELSE found

extract_emails(text, found) == IF Falsy(text) THEN RList(<<>>) ELSE found

\* the author links _create_article_from_metadata adds for metadata['autores']
AuthorLinks(autores) ==
    [idx \in DOMAIN autores |->
       [autor |-> autores[idx], orden |-> idx, es_corresponsal |-> (idx = 1)]]

\* str(e) of the exception a file raised, as <<message, detail>>
NoExc == <<>>
ErrSave == <<"Error al guardar archivo", "save_file">>
ErrExtract(detail) == <<"Error al extraer metadatos", detail>>
ErrPersist == <<"flush or commit failed", "db.session">>
ErrSession == <<"PendingRollbackError", "db.session">>
ErrCallback == <<"raised by progress_callback", "progress_callback">>

\* =====================================================================
\* State
\* =====================================================================
VARIABLES
    \* --- SpecExtract: one call of PDFService on one document
    xcall,          \* "none", "extract_text" or "extract_metadata"
    xdoc,           \* the document the call was made on
    xmax,           \* the max_pages the call was made with
    xtext,          \* what extract_text returned
    xmeta,          \* what extract_metadata returned
    xraiser,        \* the recognizer that raised during the call (None: none)
    \* --- SpecFields: one call of one field recognizer
    fcall,          \* "none" or the recognizer called
    ftext,          \* the text it was given (None: no text)
    fnow,           \* datetime.now().year when it was called
    fout,           \* what it returned
    flinks,         \* the author links an article made from the text gets
    \* --- SpecSession: one UploadSession used by several threads
    us_total_files, \* self.total_files
    us_processed,   \* self.processed
    us_success,     \* self.success
    us_errors,      \* self.errors
    us_status,      \* self.status
    us_lock,        \* self.lock: 0 or the thread holding it
    us_pc,          \* each thread: "idle", "update_progress", "get_progress"
    us_args,        \* the arguments of each thread's update_progress call
    us_progress,    \* what the last get_progress returned
    \* --- SpecUpload: one POST /articles/upload
    up_files,       \* request.files.getlist('pdfs'): the filenames
    up_processor,   \* max_workers of the PDFBatchProcessor made (0: none made)
    up_batch,       \* the files given to process_files
    up_response,    \* the (body, status code) returned
    \* --- SpecAuthors: ArticleController.add_author and remove_author
    articulo_autor, \* the ArticuloAutor rows of each (articulo_id, autor_id)
    au_call,        \* the last call, its arguments and what it returned
    articulos,      \* the Articulo row of each id: exists, activo
    ar_call,        \* the last delete or restore call and what it returned
    \* --- SpecRegistry: the module's registry of upload sessions
    upload_sessions, \* _upload_sessions: session_id -> UploadSession
    clock,          \* what datetime.now() reads
    rg_pc,          \* each thread's position in create_upload_session
    rg_new,         \* the session each thread is creating
    rg_calls,       \* calls made so far
    rg_call,        \* the last call that returned, and what it returned
    \* --- SpecFindOrCreate: _create_article_from_metadata in several threads
    db_rows,        \* committed rows of each looked-up (table, name)
    fc_unique,      \* the catalog tables have a unique name
    fc_pc,          \* each worker: "idle", "query", "add", "commit", ...
    fc_idx,         \* the lookup each worker is at
    fc_autores,     \* metadata['autores'] of each worker's file
    fc_pending,     \* rows each worker's db.session has flushed, not committed
    \* --- Spec: one call of PDFBatchProcessor.process_files
    total_files,    \* len(files); the files are 1..total_files
    max_workers,    \* self.max_workers
    has_callback,   \* progress_callback is not None
    main_pc,        \* the caller: "call", "join", "done"
    num_started,    \* threads started (threads 1..num_started)
    work_queue,     \* work_queue
    wpc,            \* each worker thread's position in _worker
    cur,            \* the file each worker holds (0: none)
    exc,            \* the exception each worker is handling
    lock,           \* self.lock: 0 or the worker holding it
    results,        \* self.results
    errors,         \* self.errors
    cb_calls,       \* the (progress, total) pairs given to progress_callback
    storage,        \* uploads present in the upload folder
    articles,       \* archivo_origen of the committed Articulo rows
    session,        \* each worker's db.session: "clean" or "failed"
    docs,           \* the document read from each file's saved upload
    meta,           \* extract_metadata's result for each file extracted
    persist_tried,  \* files for which _create_article_from_metadata ran
    ret             \* the dictionary process_files returned

xvars == <<xcall, xdoc, xmax, xtext, xmeta, xraiser>>
bvars == <<total_files, max_workers, has_callback, main_pc, num_started,
           work_queue, wpc, cur, exc, lock, results, errors,
           cb_calls, storage, articles, session, docs, meta, persist_tried, ret>>
fvars == <<fcall, ftext, fnow, fout, flinks>>
svars == <<us_total_files, us_processed, us_success, us_errors, us_status,
           us_lock, us_pc, us_args, us_progress>>
uvars == <<up_files, up_processor, up_batch, up_response>>
avars == <<articulo_autor, au_call, articulos, ar_call>>
gvars == <<upload_sessions, clock, rg_pc, rg_new, rg_calls, rg_call>>
cvars == <<db_rows, fc_unique, fc_pc, fc_idx, fc_autores, fc_pending>>
ovars == <<fvars, svars, uvars, avars, gvars, cvars>>
vars == <<xvars, bvars, ovars>>
\* what the threads of process_files leave alone
nonbatch == <<xvars, ovars>>
\* what a call of a field recognizer leaves alone
nonfields == <<xvars, bvars, svars, uvars, avars, gvars, cvars>>
\* what the users of an UploadSession leave alone
nonsession == <<xvars, bvars, fvars, uvars, avars, gvars, cvars>>
\* what a request to upload_pdfs leaves alone
nonupload == <<xvars, bvars, fvars, svars, avars, gvars, cvars>>
\* what add_author and remove_author leave alone
nonauthors == <<xvars, bvars, fvars, svars, uvars, gvars, cvars>>
\* what the calls on the session registry leave alone
nonregistry == <<xvars, bvars, fvars, svars, uvars, avars, cvars>>
\* what _create_article_from_metadata's lookups leave alone
nonfindcreate == <<xvars, bvars, fvars, svars, uvars, avars, gvars>>

Workers == 1..MaxWorkers

NoDoc == [exists |-> FALSE, suffix |-> "", has |-> {},
          out |-> [b \in {"pdfplumber", "PyPDF2", "pikepdf"} |->
                     [raises |-> TRUE, lens |-> <<>>]]]

XInit ==
    /\ xcall = "none"
    /\ xdoc = NoDoc
    /\ xmax = DEFAULT_MAX_PAGES
    /\ xtext = TextFailure(None, <<>>)
    /\ xmeta = MetadataDefault
    /\ xraiser = None

FInit ==
    /\ fcall = "none"
    /\ ftext = NoneText
    /\ fnow = 0
    /\ fout = RNone
    /\ flinks = <<>>

Callers == 1..MaxCallers

NoProgress == [taken |-> FALSE]

\* UploadSession.__init__
SInit ==
    /\ us_total_files \in 0..MaxSessionFiles
    /\ us_processed = 0
    /\ us_success = 0
    /\ us_errors = 0
    /\ us_status = "processing"
    /\ us_lock = 0
    /\ us_pc = [t \in Callers |-> "idle"]
    /\ us_args = [t \in Callers |-> [processed |-> 0, success |-> TRUE]]
    /\ us_progress = NoProgress

NoBatch == [called |-> FALSE]
NoResponse == [code |-> 0]

\* no request received yet
UInit ==
    /\ up_files = <<>>
    /\ up_processor = 0
    /\ up_batch = NoBatch
    /\ up_response = NoResponse

\* the rows of the tables articulos and autores
ArticuloIds == 1..MaxArticles
AutorIds == 1..MaxAuthors
Pairs == ArticuloIds \X AutorIds

NoCall == [op |-> "none"]

\* no author is linked to an article
\* an Articulo row, and the place of a row that was deleted
ArticuloRow(activo) == [exists |-> TRUE, activo |-> activo]
NoRow == [exists |-> FALSE, activo |-> FALSE]

NoSession == [session_id |-> 0, total_files |-> 0, start_time |-> 0, obj |-> 0]

\* _upload_sessions = {}: the registry when the module is loaded
GInit ==
    /\ upload_sessions = <<>>
    /\ clock = 0
    /\ rg_pc = [t \in Callers |-> "idle"]
    /\ rg_new = [t \in Callers |-> NoSession]
    /\ rg_calls = 0
    /\ rg_call = NoCall

\* a row looked up by name: TipoProduccion.query.filter_by(nombre=...),
\* Estado.query.filter_by(nombre=...), Autor.query.filter_by(nombre=...,
\* apellidos=...)
TipoKey == [table |-> "TipoProduccion", nombre |-> "Articulo cientifico",
            apellidos |-> <<>>]
EstadoKey == [table |-> "Estado", nombre |-> "Publicado", apellidos |-> <<>>]

\* partes = autor_nombre.strip().split(): nombre is the first part and
\* apellidos the other parts joined; a name of one part has no apellidos
AutorKey(partes) ==
    [table |-> "Autor", nombre |-> partes[1], apellidos |-> Tail(partes)]

\* the author names the files of a batch hold, as their parts
AutorNames == {<<"Ana", "Ruiz">>, <<"Ana">>}
AutorLists == {<<>>, <<<<"Ana", "Ruiz">>>>, <<<<"Ana", "Ruiz">>, <<"Ana">>>>}

CatalogKeys == {TipoKey, EstadoKey}
LookupKeys == CatalogKeys \cup {AutorKey(n) : n \in AutorNames}

NoRows == [k \in LookupKeys |-> 0]

\* the tables before a batch: each looked-up row exists or not, no worker
\* has started
CInit ==
    /\ db_rows \in [LookupKeys -> {0, 1}]
    /\ fc_unique \in BOOLEAN
    /\ fc_pc = [w \in Workers |-> "idle"]
    /\ fc_idx = [w \in Workers |-> 0]
    /\ fc_autores = [w \in Workers |-> <<>>]
    /\ fc_pending = [w \in Workers |-> NoRows]

CIdle == CInit /\ db_rows = NoRows /\ fc_unique = FALSE

AInit ==
    /\ articulos = [a \in ArticuloIds |-> ArticuloRow(TRUE)]
    /\ ar_call = NoCall
    /\ articulo_autor = [p \in Pairs |-> <<>>]
    /\ au_call = NoCall

\* Before process_files is called: a processor just constructed.
BInit ==
    /\ total_files \in 0..MaxFiles
    /\ max_workers \in 1..MaxWorkers
    /\ has_callback \in BOOLEAN
    /\ main_pc = "call"
    /\ num_started = 0
    /\ work_queue = <<>>
    /\ wpc = [w \in Workers |-> "unborn"]
    /\ cur = [w \in Workers |-> 0]
    /\ exc = [w \in Workers |-> NoExc]
    /\ lock = 0
    /\ results = <<>>
    /\ errors = <<>>
    /\ cb_calls = <<>>
    /\ storage = {}
    /\ articles = {}
    /\ session = [w \in Workers |-> "clean"]
    /\ docs = <<>>
    /\ meta = <<>>
    /\ persist_tried = {}
    /\ ret = [returned |-> FALSE]

\* =====================================================================
\* SpecExtract: PDFService called on every document of the input space
\* =====================================================================

HasChoices == {{}, {"titulo", "emails"}, AllFields}

TextInputs == Docs(BOOLEAN, Suffixes, {{}})
MetaInputs == Docs(BOOLEAN, {".pdf", ".txt"}, HasChoices)

\* a PDF the first strategy reads, and one it reads too little of
FieldInputs ==
    {PdfOf(".pdf", h, Reads(<<50, 50>>), Raises, Raises) : h \in SUBSET AllFields}
    \cup {PdfOf(".pdf", AllFields, Reads(<<49, 49>>), Raises, Raises)}

CallExtractText ==
    /\ xcall = "none"
    /\ \E d \in TextInputs, mp \in {1, DEFAULT_MAX_PAGES} :
         /\ xdoc' = d
         /\ xmax' = mp
         /\ xtext' = extract_text(d, mp)
    /\ xcall' = "extract_text"
    /\ UNCHANGED <<xmeta, xraiser, bvars, ovars>>

CallExtractMetadata ==
    /\ xcall = "none"
    /\ \E d \in MetaInputs :
         /\ xdoc' = d
         /\ xmax' = DEFAULT_MAX_PAGES
         /\ xtext' = extract_text(d, DEFAULT_MAX_PAGES)
         /\ xmeta' = extract_metadata(d)
    /\ xraiser' = None
    /\ xcall' = "extract_metadata"
    /\ UNCHANGED <<bvars, ovars>>

\* extract_metadata on a readable PDF whose text holds any set of fields,
\* every recognizer returning normally (f = None) or recognizer f raising
CallExtractMetadataOn ==
    /\ xcall = "none"
    /\ \E d \in FieldInputs, f \in AllFields \cup {None} :
         /\ xdoc' = d
         /\ xmax' = DEFAULT_MAX_PAGES
         /\ xtext' = extract_text(d, DEFAULT_MAX_PAGES)
         /\ xraiser' = IF xtext'.success THEN f ELSE None
         /\ xmeta' = IF f = None THEN extract_metadata(d)
                     ELSE extract_metadata_recognizer_raises(d, f)
    /\ xcall' = "extract_metadata"
    /\ UNCHANGED <<bvars, ovars>>

XNext == CallExtractText \/ CallExtractMetadata \/ CallExtractMetadataOn

\* a processor that is given no batch
BIdle == BInit /\ total_files = 0 /\ max_workers = 1 /\ has_callback = FALSE

\* a session that is not used
SIdle == SInit /\ us_total_files = 0

XSpecInit == XInit /\ BIdle /\ FInit /\ SIdle /\ UInit /\ AInit /\ GInit /\ CIdle

SpecExtract == XSpecInit /\ [][XNext]_vars

\* =====================================================================
\* SpecFields: one field recognizer called on one text
\* =====================================================================

Str4(a, b, c, d) == <<a, b, c, d>>

\* the clock of the two runs considered
CurrentYears == {2026, 2031}

YearPieces ==
    { Str4("2", "0", "1", "0"), Str4("2", "0", "2", "3"), Str4("1", "9", "7", "6"),
      Str4("1", "9", "7", "5"), Str4("2", "0", "2", "7"), Str4("2", "0", "2", "8"),
      Str4("2", "0", "3", "0"), <<"4">>, <<" ">>, <<"_">> }

\* where the pieces start: at the head of the text, or near the end of the
\* first SAMPLE_CHARS characters
SamplePads == {0, SAMPLE_CHARS - 10, SAMPLE_CHARS - 4, SAMPLE_CHARS - 3}

PieceTexts(pieces, pads) ==
    {Text(p, Concat(ps)) :
       p \in pads, ps \in UNION {[1..n -> pieces] : n \in 0..MaxPieces}}

YearTexts == PieceTexts(YearPieces, SamplePads) \cup {NoneText}

CallExtractYear ==
    /\ fcall = "none"
    /\ \E t \in YearTexts, now \in CurrentYears :
         /\ ftext' = t
         /\ fnow' = now
         /\ fout' = extract_year(t, now)
    /\ fcall' = "extract_year"
    /\ UNCHANGED <<flinks, nonfields>>

\* texts around a DOI: what precedes it, its registrant digits, the slash,
\* and up to MaxPieces characters after the slash
DoiLeads == {<<>>, <<"D", "O", "I", ":", " ">>, <<"d", "o", "i", ":">>, <<"h", "t", "t", "p", "s", ":", "/", "/", "d", "o", "i", ".", "o", "r", "g", "/">>, <<"h", "t", "t", "p", ":", "/", "/", "d", "x", ".", "d", "o", "i", ".", "o", "r", "g", "/">>, <<"a", " ">>, <<"1", "0", ".", "9", "9", "9", "9", "/", "b", " ">>}
DoiDigits == {<<"1", "2", "3", "4">>, <<"1", "2", "3", "4", "5">>, <<"1", "2", "3">>}
DoiSlashes == {<<"/">>, <<>>}
DoiTailChars == {"a", "b", ".", ")", " "}

DoiTexts ==
    {Text(0, lead \o DOI_HEAD \o digs \o slash \o tail) :
       lead \in DoiLeads, digs \in DoiDigits, slash \in DoiSlashes,
       tail \in UNION {[1..n -> DoiTailChars] : n \in 0..MaxPieces}}
    \cup {NoneText, EmptyText}

CallExtractDoi ==
    /\ fcall = "none"
    /\ \E t \in DoiTexts :
         /\ ftext' = t
         /\ fout' = extract_doi(t)
    /\ fcall' = "extract_doi"
    /\ UNCHANGED <<fnow, flinks, nonfields>>

\* texts around an ISSN: the marker, the two halves and what separates them
IssnMarkers == {<<"I", "S", "S", "N">>, <<"i", "s", "s", "n">>, <<"I", "S", "S", "N", ":">>, <<"I", "S", "S", "N", ":", " ">>, <<>>, <<"I", "S">>}
IssnFirstHalves == {<<"1", "2", "3", "4">>, <<"1", "2", "3">>}
IssnSeparators == {<<>>, <<"-">>, <<" ">>, <<"\t">>, <<"\n">>, <<"-", "-">>}
IssnSecondHalves == {<<"5", "6", "7", "8">>, <<"5", "6", "7", "X">>, <<"5", "6", "7", "x">>, <<"5", "6", "7">>}
IssnTails == {<<>>, <<"9">>, <<" ", "a">>}

IssnTexts ==
    {Text(0, marker \o first \o sep \o second \o tail) :
       marker \in IssnMarkers, first \in IssnFirstHalves, sep \in IssnSeparators,
       second \in IssnSecondHalves, tail \in IssnTails}
    \cup {NoneText, EmptyText}

CallExtractIssn ==
    /\ fcall = "none"
    /\ \E t \in IssnTexts :
         /\ ftext' = t
         /\ fout' = extract_issn(t)
    /\ fcall' = "extract_issn"
    /\ UNCHANGED <<fnow, flinks, nonfields>>

\* texts with one or two lines of comma-separated parts, placed before,
\* inside and at the end of lines[5:30]
AuthorParts == {"Ana Ruiz", "Luis Gil", "Eva Sol", "et al", "Universidad"}
AuthorLineSets(maxParts) == UNION {[1..n -> AuthorParts] : n \in 1..maxParts}
AuthorSkips == {0, AUTHOR_LINES_FROM, AUTHOR_LINES_TO - 1}

AuthorTexts ==
    {LineText(skip, <<l1>>) : skip \in AuthorSkips, l1 \in AuthorLineSets(MaxPieces)}
    \cup {LineText(skip, <<l1, l2>>) :
            skip \in AuthorSkips, l1 \in AuthorLineSets(2), l2 \in AuthorLineSets(2)}
    \cup {NoneLines, EmptyLines}

\* extract_authors on a text, and the author links of the article
\* _create_article_from_metadata makes from the list returned
CallExtractAuthors ==
    /\ fcall = "none"
    /\ \E t \in AuthorTexts :
         /\ ftext' = t
         /\ \E r \in extract_authors(t) :
              /\ fout' = r
              /\ flinks' = AuthorLinks(r.list)
    /\ fcall' = "extract_authors"
    /\ UNCHANGED <<fnow, nonfields>>

\* the lines of the texts given to extract_title: what they are like
TitleLines ==
    {TitleLine(9, TRUE, FALSE, ""),        \* upper case, too short
     TitleLine(10, TRUE, FALSE, ""),       \* upper case
     TitleLine(21, FALSE, FALSE, ""),
     TitleLine(30, FALSE, FALSE, ""),
     TitleLine(31, FALSE, FALSE, ""),
     TitleLine(200, FALSE, FALSE, ""),
     TitleLine(201, FALSE, FALSE, ""),
     TitleLine(40, FALSE, TRUE, ""),       \* 'Journal of ...'
     TitleLine(25, TRUE, TRUE, "DOI"),     \* 'DOI: 10.1234/ABC ...'
     TitleLine(25, FALSE, TRUE, "doi"),
     TitleLine(45, FALSE, FALSE, "http"),
     TitleLine(25, FALSE, FALSE, "www")}

TitleSkips == {0, FALLBACK_LINES - 1, FALLBACK_LINES, TITLE_LINES - 2,
               TITLE_LINES - 1, TITLE_LINES}

TitleTexts ==
    {LineText(skip, lines) :
       skip \in TitleSkips,
       lines \in UNION {[1..n -> TitleLines] : n \in 0..MaxTitleLines}}
    \cup {NoneLines}

CallExtractTitle ==
    /\ fcall = "none"
    /\ \E t \in TitleTexts :
         /\ ftext' = t
         /\ fout' = extract_title(t)
    /\ fcall' = "extract_title"
    /\ UNCHANGED <<fnow, flinks, nonfields>>

\* the tokens of the texts given to extract_abstract
AbstractTokens ==
    {Token("abstract", 8), Token("resumen", 7), Token("keywords", 8),
     Token("introduction", 12), Token("gap", 1), Token("gap", 3),
     Token("body", 1), Token("body", ABSTRACT_MIN_LEN),
     Token("body", ABSTRACT_MAX_LEN - ABSTRACT_MIN_LEN - 1)}

AbstractTexts ==
    {TokenText(tokens) :
       tokens \in UNION {[1..n -> AbstractTokens] : n \in 0..MaxAbstractTokens}}
    \cup {NoneTokens}

CallExtractAbstract ==
    /\ fcall = "none"
    /\ \E t \in AbstractTexts :
         /\ ftext' = t
         /\ fout' = extract_abstract(t)
    /\ fcall' = "extract_abstract"
    /\ UNCHANGED <<fnow, flinks, nonfields>>

\* the texts given to extract_keywords: what stands before the section
\* word, the section word, what follows it at once, a long lead of
\* keywords, and a few characters
KeywordHeads ==
    {<<>>, <<"a">>, <<"terminos", ":", " ", "a", "a", "a", "a", ",", " ">>,
     <<"a", "a", "a", "a", ",", " ">>}
KeywordMarks == {<<>>, <<"keywords">>, <<"Keywords">>}
KeywordColons == {<<>>, <<":", " ">>, <<":", "\n", "\n">>}
KeywordLeads ==
    {<<>>,
     [i \in 1..(KEYWORDS_WINDOW - 3) |-> "a"] \o <<",">>,
     Concat([i \in 1..(KEYWORDS_CAP + 1) |-> <<"a", "a", "a", ",">>])}
KeywordChars == {"a", ".", ",", " ", "\n"}

KeywordTexts ==
    {Text(0, <<"keywords", ":", " ">> \o tail) :
       tail \in UNION {[1..n -> KeywordChars] : n \in 0..MaxKeywordChars}}
    \cup {Text(0, head \o mark \o colon \o tail) :
            head \in KeywordHeads, mark \in KeywordMarks, colon \in KeywordColons,
            tail \in {<<"a", "a", "a">>, <<"a", "a", ".">>}}
    \cup {Text(0, <<"keywords", ":", " ">> \o lead \o tail) :
            lead \in KeywordLeads,
            tail \in UNION {[1..n -> KeywordChars] : n \in 0..(MaxKeywordChars - 2)}}
    \cup {NoneText, EmptyText}

CallExtractKeywords ==
    /\ fcall = "none"
    /\ \E t \in KeywordTexts :
         /\ ftext' = t
         /\ fout' = extract_keywords(t)
    /\ fcall' = "extract_keywords"
    /\ UNCHANGED <<fnow, flinks, nonfields>>

ScanningRecognizers == {"extract_emails"}

\* what the scan of a non-empty text may come up with
ScanOutcomes(recognizer) == {RList(<<>>), RList(<<"a">>)}

CallScanningRecognizer ==
    /\ fcall = "none"
    /\ \E r \in ScanningRecognizers, t \in {NoneText, EmptyText, Text(0, <<"a">>)} :
         \E found \in ScanOutcomes(r) :
             /\ ftext' = t
             /\ fout' = extract_emails(t, found)
             /\ fcall' = r
    /\ UNCHANGED <<fnow, flinks, nonfields>>

FNext ==
    \/ CallExtractYear
    \/ CallExtractDoi
    \/ CallExtractIssn
    \/ CallExtractAuthors
    \/ CallExtractTitle
    \/ CallExtractAbstract
    \/ CallExtractKeywords
    \/ CallScanningRecognizer

FSpecInit == XInit /\ BIdle /\ FInit /\ SIdle /\ UInit /\ AInit /\ GInit /\ CIdle

SpecFields == FSpecInit /\ [][FNext]_vars

\* =====================================================================
\* SpecSession: UploadSession
\* =====================================================================
\* A thread calls update_progress(processed, success): it takes self.lock.
CallUpdateProgress(t) ==
    /\ us_pc[t] = "idle"
    /\ us_lock = 0
    /\ us_success + us_errors
         + Cardinality({u \in Callers : us_pc[u] = "update_progress"}) < MaxUpdates
    /\ \E processed \in 0..MaxProcessed, success \in BOOLEAN :
         us_args' = [us_args EXCEPT ![t] = [processed |-> processed, success |-> success]]
    /\ us_lock' = t
    /\ us_pc' = [us_pc EXCEPT ![t] = "update_progress"]
    /\ UNCHANGED <<us_total_files, us_processed, us_success, us_errors, us_status,
                   us_progress, nonsession>>

\* Faulty variant: a call with processed below total_files puts the status
\* back to 'processing'
UpdateProgressResetting(t) ==
    /\ us_pc[t] = "update_progress"
    /\ us_lock = t
    /\ us_processed' = us_args[t].processed
    /\ IF us_args[t].success
       THEN us_success' = us_success + 1 /\ UNCHANGED us_errors
       ELSE us_errors' = us_errors + 1 /\ UNCHANGED us_success
    /\ us_status' = IF us_args[t].processed >= us_total_files THEN "completed"
                    ELSE "processing"
    /\ us_lock' = 0
    /\ us_pc' = [us_pc EXCEPT ![t] = "idle"]
    /\ UNCHANGED <<us_total_files, us_args, us_progress, nonsession>>

\* the body of update_progress, and the release of the lock
UpdateProgress(t) ==
    /\ us_pc[t] = "update_progress"
    /\ us_lock = t
    /\ us_processed' = us_args[t].processed
    /\ IF us_args[t].success
       THEN us_success' = us_success + 1 /\ UNCHANGED us_errors
       ELSE us_errors' = us_errors + 1 /\ UNCHANGED us_success
    /\ us_status' = IF us_args[t].processed >= us_total_files THEN "completed"
                    ELSE us_status
    /\ us_lock' = 0
    /\ us_pc' = [us_pc EXCEPT ![t] = "idle"]
    /\ UNCHANGED <<us_total_files, us_args, us_progress, nonsession>>

\* A thread calls get_progress(): it takes self.lock.
CallGetProgress(t) ==
    /\ us_pc[t] = "idle"
    /\ us_lock = 0
    /\ us_lock' = t
    /\ us_pc' = [us_pc EXCEPT ![t] = "get_progress"]
    /\ UNCHANGED <<us_total_files, us_processed, us_success, us_errors, us_status,
                   us_args, us_progress, nonsession>>

\* the body of get_progress, and the release of the lock; progress_percent
\* is rounded down, the two times read from the clock are left out
GetProgress(t) ==
    /\ us_pc[t] = "get_progress"
    /\ us_lock = t
    /\ us_progress' =
         [taken |-> TRUE,
          status |-> us_status,
          total |-> us_total_files,
          processed |-> us_processed,
          success |-> us_success,
          errors |-> us_errors,
          progress_percent |-> IF us_total_files > 0
                               THEN (us_processed * 100) \div us_total_files
                               ELSE 0]
    /\ us_lock' = 0
    /\ us_pc' = [us_pc EXCEPT ![t] = "idle"]
    /\ UNCHANGED <<us_total_files, us_processed, us_success, us_errors, us_status,
                   us_args, nonsession>>

SNext ==
    \E t \in Callers :
        \/ CallUpdateProgress(t)
        \/ UpdateProgress(t)
        \/ CallGetProgress(t)
        \/ GetProgress(t)

SSpecInit == XInit /\ BIdle /\ FInit /\ SInit /\ UInit /\ AInit /\ GInit /\ CIdle

SpecSession == SSpecInit /\ [][SNext]_vars

\* =====================================================================
\* SpecUpload: upload_pdfs
\* =====================================================================
\* An entry of the request is seen by its filename: "" or a name.
RequestFiles ==
    UNION {[1..n -> {"", "a.pdf"}] : n \in 0..MaxRequestFiles}

\* Faulty variant: the entries without a filename are kept
NamedFilesUnfiltered(files) == files

\* [f for f in files if f.filename]
NamedFiles(files) == SelectSeq(files, LAMBDA f : f # "")

\* jsonify({'success': False, 'error': error}), code
ErrorResponse(error, code) ==
    [code |-> code, body |-> [success |-> FALSE, error |-> error]]

\* what process_files(files), called with no progress_callback, returns
\* when ok of the files succeed
BatchResults(files, ok) ==
    [total |-> Len(files), success |-> ok, errors |-> Len(files) - ok]

\* The handler of POST /articles/upload. The constructor of
\* PDFBatchProcessor or process_files may raise.
UploadPdfs ==
    /\ up_response = NoResponse
    /\ \E files \in RequestFiles :
         /\ up_files' = files
         /\ IF Len(files) = 0
            THEN /\ up_response' = ErrorResponse("No se recibieron archivos", 400)
                 /\ UNCHANGED <<up_processor, up_batch>>
            ELSE IF Len(files) > MAX_FILES
            THEN /\ up_response' = ErrorResponse("Maximo 10 archivos permitidos", 400)
                 /\ UNCHANGED <<up_processor, up_batch>>
            ELSE IF Len(NamedFiles(files)) = 0
            THEN /\ up_response' = ErrorResponse("No se recibieron archivos validos", 400)
                 /\ UNCHANGED <<up_processor, up_batch>>
            ELSE LET named == NamedFiles(files)
                 IN \/ /\ up_processor' = 0          \* the constructor raises
                       /\ up_batch' = NoBatch
                       /\ up_response' = ErrorResponse("Error interno del servidor", 500)
                    \/ /\ up_processor' = Min(MAX_UPLOAD_THREADS, Len(named))
                       /\ \/ \E ok \in 0..Len(named) :
                               /\ up_batch' = [called |-> TRUE, files |-> named,
                                               raised |-> FALSE]
                               /\ up_response' = [code |-> 200,
                                                  body |-> BatchResults(named, ok)]
                          \/ /\ up_batch' = [called |-> TRUE, files |-> named,
                                             raised |-> TRUE]
                             /\ up_response' =
                                  ErrorResponse("Error interno del servidor", 500)
    /\ UNCHANGED nonupload

UNext == UploadPdfs

USpecInit == XInit /\ BIdle /\ FInit /\ SIdle /\ UInit /\ AInit /\ GInit /\ CIdle

SpecUpload == USpecInit /\ [][UNext]_vars

\* =====================================================================
\* SpecAuthors: ArticleController.add_author, remove_author
\* =====================================================================
\* the ids calls are made with: 0 is the id of no row
CalledArticuloIds == 0..MaxArticles
CalledAutorIds == 0..MaxAuthors
Ordenes == {1, 2}
\* es_corresponsal is stored in the row and read by neither method: the
\* calls are made with its default
Corresponsales == {FALSE}

\* Articulo.query.get(article_id) is not None
ArticuloExists(article_id) ==
    article_id \in ArticuloIds /\ articulos[article_id].exists

TotalRows(links) == SumSeq([k \in 1..(MaxArticles * MaxAuthors) |->
                              Len(links[<<((k - 1) \div MaxAuthors) + 1,
                                          ((k - 1) % MaxAuthors) + 1>>])])

\* Faulty variant: the query for the existing link finds nothing
ExistingLinkIgnored(links, article_id, author_id) == FALSE

\* ArticuloAutor.query.filter_by(articulo_id, autor_id).first() is not None
ExistingLink(links, article_id, author_id) == links[<<article_id, author_id>>] # <<>>

\* Articulo.agregar_autor with an orden given: one more row
agregar_autor(links, article_id, author_id, orden, es_corresponsal) ==
    [links EXCEPT ![<<article_id, author_id>>] =
        Append(@, [orden |-> orden, es_corresponsal |-> es_corresponsal])]

\* the rows of an article, each named by its author and its position
\* among the rows of that author
RowsOf(links, article_id) ==
    {<<u, i>> \in AutorIds \X (1..MaxLinkRows) : i <= Len(links[<<article_id, u>>])}

\* the numberings enumerate(autores, start=1) can give to the rows of an
\* article read with order_by(orden): rows of equal orden come in any order
Renumberings(links, article_id) ==
    LET rows == RowsOf(links, article_id)
        OrdenOf(r) == links[<<article_id, r[1]>>][r[2]].orden
    IN {n \in [rows -> 1..Cardinality(rows)] :
          /\ \A r, q \in rows : r # q => n[r] # n[q]
          /\ \A r, q \in rows : OrdenOf(r) < OrdenOf(q) => n[r] < n[q]}

\* Articulo.remover_autor when the link exists: the rows of the pair are
\* deleted and the rows left in the article are renumbered 1, 2, ...
remover_autor(links, article_id, author_id) ==
    LET deleted == [links EXCEPT ![<<article_id, author_id>>] = <<>>]
    IN {[p \in Pairs |->
           IF p[1] = article_id
           THEN [i \in DOMAIN deleted[p] |->
                   [deleted[p][i] EXCEPT !.orden = n[<<p[2], i>>]]]
           ELSE deleted[p]] : n \in Renumberings(deleted, article_id)}

CallReturned(op, article_id, author_id, ok, error) ==
    [op |-> op, article_id |-> article_id, author_id |-> author_id,
     ok |-> ok, error |-> error]

\* add_author(article_id, author_id, orden, es_corresponsal); db_error: a
\* query or the commit raises, the except branches roll back
AddAuthor ==
    \E article_id \in CalledArticuloIds, author_id \in CalledAutorIds,
       orden \in Ordenes, es_corresponsal \in Corresponsales, db_error \in BOOLEAN :
        LET Return(ok, error) ==
                au_call' = CallReturned("add_author", article_id, author_id, ok, error)
        IN IF db_error
           THEN Return(FALSE, "Error al agregar el autor") /\ UNCHANGED articulo_autor
           ELSE IF ~ArticuloExists(article_id)
           THEN Return(FALSE, "No se encontro el articulo") /\ UNCHANGED articulo_autor
           ELSE IF author_id \notin AutorIds
           THEN Return(FALSE, "No se encontro el autor") /\ UNCHANGED articulo_autor
           ELSE IF ExistingLink(articulo_autor, article_id, author_id)
           THEN /\ Return(FALSE, "El autor ya esta asociado a este articulo")
                /\ UNCHANGED articulo_autor
           ELSE /\ TotalRows(articulo_autor) < MaxLinkRows
                /\ articulo_autor' = agregar_autor(articulo_autor, article_id,
                                                   author_id, orden, es_corresponsal)
                /\ Return(TRUE, None)

\* remove_author(article_id, author_id)
RemoveAuthor ==
    \E article_id \in CalledArticuloIds, author_id \in CalledAutorIds,
       db_error \in BOOLEAN :
        LET Return(ok, error) ==
                au_call' = CallReturned("remove_author", article_id, author_id, ok, error)
        IN IF db_error
           THEN Return(FALSE, "Error al remover el autor") /\ UNCHANGED articulo_autor
           ELSE IF ~ArticuloExists(article_id)
           THEN Return(FALSE, "No se encontro el articulo") /\ UNCHANGED articulo_autor
           ELSE IF author_id \notin AutorIds
           THEN Return(FALSE, "No se encontro el autor") /\ UNCHANGED articulo_autor
           ELSE IF ~ExistingLink(articulo_autor, article_id, author_id)
           THEN /\ Return(FALSE, "El autor no esta asociado a este articulo")
                /\ UNCHANGED articulo_autor
           ELSE /\ articulo_autor' \in remover_autor(articulo_autor, article_id, author_id)
                /\ Return(TRUE, None)

ANext ==
    \/ AddAuthor /\ UNCHANGED <<articulos, ar_call, nonauthors>>
    \/ RemoveAuthor /\ UNCHANGED <<articulos, ar_call, nonauthors>>

ASpecInit == XInit /\ BIdle /\ FInit /\ SIdle /\ UInit /\ AInit /\ GInit /\ CIdle

SpecAuthors == ASpecInit /\ [][ANext]_vars

\* =====================================================================
\* SpecArticles: ArticleController.delete, restore
\* =====================================================================
\* the exception a query or the commit of a call raises, if any
DbErrors == {"none", "IntegrityError", "SQLAlchemyError"}

ArticleCallReturned(op, article_id, soft, ok, error, was_activo) ==
    [op |-> op, article_id |-> article_id, soft |-> soft, ok |-> ok,
     error |-> error, was_activo |-> was_activo]

\* Faulty variant: the physical deletion leaves the author links
DeleteLinksOfNone(links, article_id) == links

\* ArticuloAutor.query.filter_by(articulo_id=article_id).delete()
DeleteLinksOf(links, article_id) ==
    [p \in Pairs |-> IF p[1] = article_id THEN <<>> ELSE links[p]]

\* delete(article_id, soft); the except branches roll back
Delete ==
    \E article_id \in CalledArticuloIds, soft \in BOOLEAN, db_error \in DbErrors :
        LET was == ArticuloExists(article_id) /\ articulos[article_id].activo
            Return(ok, error) ==
                ar_call' = ArticleCallReturned("delete", article_id, soft, ok, error, was)
        IN IF db_error = "IntegrityError"
           THEN /\ Return(FALSE, "No se puede eliminar el articulo")
                /\ UNCHANGED <<articulos, articulo_autor>>
           ELSE IF db_error = "SQLAlchemyError"
           THEN /\ Return(FALSE, "Error al eliminar el articulo")
                /\ UNCHANGED <<articulos, articulo_autor>>
           ELSE IF ~ArticuloExists(article_id)
           THEN /\ Return(FALSE, "No se encontro el articulo")
                /\ UNCHANGED <<articulos, articulo_autor>>
           ELSE IF soft
           THEN /\ articulos' = [articulos EXCEPT ![article_id].activo = FALSE]
                /\ UNCHANGED articulo_autor
                /\ Return(TRUE, None)
           ELSE /\ articulo_autor' = DeleteLinksOf(articulo_autor, article_id)
                /\ articulos' = [articulos EXCEPT ![article_id] = NoRow]
                /\ Return(TRUE, None)

\* restore(article_id): ok stands for the article returned
Restore ==
    \E article_id \in CalledArticuloIds, db_error \in DbErrors \ {"IntegrityError"} :
        LET was == ArticuloExists(article_id) /\ articulos[article_id].activo
            Return(ok, error) ==
                ar_call' = ArticleCallReturned("restore", article_id, FALSE, ok, error, was)
        IN IF db_error = "SQLAlchemyError"
           THEN Return(FALSE, "Error al restaurar el articulo") /\ UNCHANGED articulos
           ELSE IF ~ArticuloExists(article_id)
           THEN Return(FALSE, "No se encontro el articulo") /\ UNCHANGED articulos
           ELSE /\ articulos' = [articulos EXCEPT ![article_id].activo = TRUE]
                /\ Return(TRUE, None)

RNext ==
    \/ Delete /\ UNCHANGED <<au_call, nonauthors>>
    \/ Restore /\ UNCHANGED <<articulo_autor, au_call, nonauthors>>

\* the articles exist, active or not, and each pair is linked or not by a
\* row made with the defaults of add_author
RInit ==
    /\ articulos \in [ArticuloIds -> {ArticuloRow(TRUE), ArticuloRow(FALSE)}]
    /\ articulo_autor \in
         [Pairs -> {<<>>, <<[orden |-> 1, es_corresponsal |-> FALSE]>>}]
    /\ au_call = NoCall
    /\ ar_call = NoCall

RSpecInit == XInit /\ BIdle /\ FInit /\ SIdle /\ UInit /\ RInit /\ GInit /\ CIdle

SpecArticles == RSpecInit /\ [][RNext]_vars

\* =====================================================================
\* SpecRegistry: create_upload_session, get_upload_session,
\* cleanup_old_sessions
\* =====================================================================
\* The clock is read in whole readings: two calls of datetime.now() within
\* one reading give the same value, and strftime('%Y%m%d_%H%M%S_%f') of
\* equal values gives equal strings.  A session_id is written as the
\* reading it was formatted from.

RSession(us) == [kind |-> "session", session |-> us]

\* time passes
Tick ==
    /\ clock < MaxClock
    /\ clock' = clock + 1
    /\ UNCHANGED <<upload_sessions, rg_pc, rg_new, rg_calls, rg_call, nonregistry>>

\* the total_files the sessions are created with
SessionSizes == {MaxSessionFiles}

\* session_id = f"upload_{datetime.now().strftime(...)}"
CallCreateUploadSession(t) ==
    /\ rg_pc[t] = "idle"
    /\ rg_calls < MaxRegistryCalls
    /\ rg_calls' = rg_calls + 1
    /\ \E n \in SessionSizes :
         rg_new' = [rg_new EXCEPT ![t] =
                      [session_id |-> clock, total_files |-> n,
                       start_time |-> 0, obj |-> rg_calls + 1]]
    /\ rg_pc' = [rg_pc EXCEPT ![t] = "register"]
    /\ UNCHANGED <<upload_sessions, clock, rg_call, nonregistry>>

\* UploadSession(session_id, total_files): start_time is read from the clock
NewUploadSession(us) == [us EXCEPT !.start_time = clock]

\* session = UploadSession(session_id, total_files);
\* with _sessions_lock: _upload_sessions[session_id] = session; return
RegisterSession(t) ==
    /\ rg_pc[t] = "register"
    /\ upload_sessions' = (rg_new[t].session_id :> NewUploadSession(rg_new[t]))
                             @@ upload_sessions
    /\ rg_call' = [op |-> "create", returned |-> NewUploadSession(rg_new[t])]
    /\ rg_new' = [rg_new EXCEPT ![t] = NoSession]
    /\ rg_pc' = [rg_pc EXCEPT ![t] = "idle"]
    /\ UNCHANGED <<clock, rg_calls, nonregistry>>

\* with _sessions_lock: return _upload_sessions.get(session_id)
GetUploadSession(session_id) ==
    /\ rg_calls < MaxRegistryCalls
    /\ rg_calls' = rg_calls + 1
    /\ rg_call' = [op |-> "get", session_id |-> session_id,
                   returned |-> IF session_id \in DOMAIN upload_sessions
                                THEN RSession(upload_sessions[session_id])
                                ELSE RNone]
    /\ UNCHANGED <<upload_sessions, clock, rg_pc, rg_new, nonregistry>>

\* Faulty variant: a session as old as the limit is old already
IsOldAtLimit(us, now, max_age_hours) ==
    now - us.start_time >= max_age_hours * TicksPerHour

\* age_hours = (now - session.start_time).total_seconds() / 3600;
\* age_hours > max_age_hours
IsOld(us, now, max_age_hours) ==
    now - us.start_time > max_age_hours * TicksPerHour

\* with _sessions_lock: the sessions that are old are deleted, their number
\* is returned
CleanupOldSessions(max_age_hours) ==
    LET to_remove == {id \in DOMAIN upload_sessions :
                        IsOld(upload_sessions[id], clock, max_age_hours)}
    IN /\ rg_calls < MaxRegistryCalls
       /\ rg_calls' = rg_calls + 1
       /\ upload_sessions' = [id \in DOMAIN upload_sessions \ to_remove |->
                                upload_sessions[id]]
       /\ rg_call' = [op |-> "cleanup", max_age_hours |-> max_age_hours,
                      returned |-> Cardinality(to_remove)]
       /\ UNCHANGED <<clock, rg_pc, rg_new, nonregistry>>

GNext ==
    \/ Tick
    \/ \E t \in Callers :
         \/ CallCreateUploadSession(t)
         \/ RegisterSession(t)
    \/ \E session_id \in 0..MaxClock : GetUploadSession(session_id)
    \/ \E max_age_hours \in 0..MaxAgeHours : CleanupOldSessions(max_age_hours)

GSpecInit == XInit /\ BIdle /\ FInit /\ SIdle /\ UInit /\ AInit /\ GInit /\ CIdle

SpecRegistry == GSpecInit /\ [][GNext]_vars

\* =====================================================================
\* SpecFindOrCreate: the lookups of _create_article_from_metadata
\* =====================================================================
\* Each worker thread has its own db.session.  A query sees the committed
\* rows and the rows its own session has flushed; the rows another session
\* has flushed are not seen before that session commits.

\* the rows _create_article_from_metadata looks up, in order
Lookups(w) ==
    <<TipoKey, EstadoKey>>
    \o [i \in 1..Len(fc_autores[w]) |-> AutorKey(fc_autores[w][i])]

\* a worker enters _create_article_from_metadata with the metadata of a file
BeginCreateArticle(w) ==
    /\ fc_pc[w] = "idle"
    /\ \E autores \in AutorLists :
         fc_autores' = [fc_autores EXCEPT ![w] = autores]
    /\ fc_idx' = [fc_idx EXCEPT ![w] = 1]
    /\ fc_pc' = [fc_pc EXCEPT ![w] = "query"]
    /\ UNCHANGED <<db_rows, fc_unique, fc_pending, nonfindcreate>>

\* to the next lookup, or to db.session.commit() after the last one
NextLookup(w) ==
    /\ fc_idx' = [fc_idx EXCEPT ![w] = fc_idx[w] + 1]
    /\ fc_pc' = [fc_pc EXCEPT ![w] =
                   IF fc_idx[w] = Len(Lookups(w)) THEN "commit" ELSE "query"]

\* the rows of key that a query of worker w sees
VisibleTo(w, key) == db_rows[key] + fc_pending[w][key]

\* X.query.filter_by(...).first(); if not x: ...
QueryFirst(w) ==
    /\ fc_pc[w] = "query"
    /\ IF VisibleTo(w, Lookups(w)[fc_idx[w]]) > 0
       THEN NextLookup(w)
       ELSE /\ fc_pc' = [fc_pc EXCEPT ![w] = "add"]
            /\ UNCHANGED fc_idx
    /\ UNCHANGED <<db_rows, fc_unique, fc_autores, fc_pending, nonfindcreate>>

\* the insert of a row of a catalog table with a unique name is refused
\* when a committed row has the name
Refused(key) == fc_unique /\ key \in CatalogKeys /\ db_rows[key] > 0

\* db.session.add(x); db.session.flush()
AddAndFlush(w) ==
    LET key == Lookups(w)[fc_idx[w]] IN
    /\ fc_pc[w] = "add"
    /\ IF Refused(key)
       THEN /\ fc_pc' = [fc_pc EXCEPT ![w] = "failed"]
            /\ UNCHANGED <<fc_idx, fc_pending>>
       ELSE /\ fc_pending' = [fc_pending EXCEPT ![w][key] = @ + 1]
            /\ NextLookup(w)
    /\ UNCHANGED <<db_rows, fc_unique, fc_autores, nonfindcreate>>

\* db.session.commit(): the flushed rows become rows of the tables, unless
\* one of them is refused
Commit(w) ==
    /\ fc_pc[w] = "commit"
    /\ IF \E key \in LookupKeys : fc_pending[w][key] > 0 /\ Refused(key)
       THEN /\ fc_pc' = [fc_pc EXCEPT ![w] = "failed"]
            /\ UNCHANGED <<db_rows, fc_pending>>
       ELSE /\ db_rows' = [k \in LookupKeys |-> db_rows[k] + fc_pending[w][k]]
            /\ fc_pending' = [fc_pending EXCEPT ![w] = NoRows]
            /\ fc_pc' = [fc_pc EXCEPT ![w] = "done"]
    /\ UNCHANGED <<fc_unique, fc_idx, fc_autores, nonfindcreate>>

CNext ==
    \E w \in Workers :
        \/ BeginCreateArticle(w)
        \/ QueryFirst(w)
        \/ AddAndFlush(w)
        \/ Commit(w)

CSpecInit == XInit /\ BIdle /\ FInit /\ SIdle /\ UInit /\ AInit /\ GInit /\ CInit

SpecFindOrCreate == CSpecInit /\ [][CNext]_vars

\* =====================================================================
\* Spec: PDFBatchProcessor.process_files
\* =====================================================================

Files == 1..total_files

\* The uploads a batch may hold, as PDFService sees them once saved: a PDF
\* only the third strategy reads, a PDF no strategy reads enough text from,
\* and an upload that is no PDF at all.
BatchDocs ==
    { PdfOf(".PDF", CoreFields, Raises, Reads(<<49, 49>>), Reads(<<49, 50>>)),
      PdfOf(".pdf", AllFields, Reads(<<0, 0>>), Reads(<<49, 0>>), Raises),
      PdfOf(".txt", AllFields, Reads(<<50, 50>>), Reads(<<50, 50>>), Reads(<<50, 50>>)) }

\* Faulty variant: one thread per max_workers, whatever the number of files
NumThreadsNoMin == max_workers

\* num_threads = min(self.max_workers, total_files)
NumThreads == Min(max_workers, total_files)

\* ---------------------------------------------------------- the caller

\* process_files up to the joins: self.results and self.errors are reset,
\* the queue is filled and the threads are started.  The threads are started
\* in one step: a thread started later is a thread that has not run yet.
ProcessFilesCall ==
    /\ main_pc = "call"
    /\ results' = <<>>
    /\ errors' = <<>>
    /\ work_queue' = [i \in 1..total_files |-> i]
    /\ num_started' = NumThreads
    /\ wpc' = [w \in Workers |-> IF w <= NumThreads THEN "while" ELSE wpc[w]]
    /\ main_pc' = "join"
    /\ UNCHANGED <<nonbatch, total_files, max_workers, has_callback, cur, exc,
                   lock, cb_calls, storage, articles, session, docs, meta,
                   persist_tried, ret>>

\* thread.join() returns once the thread has exited
ThreadJoinable(w) == wpc[w] = "exit"

\* for thread in threads: thread.join(), then the result dictionary
ProcessFilesReturn ==
    /\ main_pc = "join"
    /\ \A w \in 1..num_started : ThreadJoinable(w)
    /\ ret' = [returned |-> TRUE, total |-> total_files,
               success |-> Len(results), errors |-> Len(errors),
               results |-> results, error_details |-> errors]
    /\ main_pc' = "done"
    /\ UNCHANGED <<nonbatch, total_files, max_workers, has_callback, num_started,
                   work_queue, wpc, cur, exc, lock, results, errors, cb_calls,
                   storage, articles, session, docs, meta, persist_tried>>

\* ---------------------------------------------------------- a worker

Goto(w, pos) == wpc' = [wpc EXCEPT ![w] = pos]

Raise(w, e) == /\ exc' = [exc EXCEPT ![w] = e]
               /\ Goto(w, "except")

\* while not work_queue.empty()
WhileNotEmpty(w) ==
    /\ wpc[w] = "while"
    /\ Goto(w, IF work_queue = <<>> THEN "exit" ELSE "get")
    /\ UNCHANGED <<nonbatch, total_files, max_workers, has_callback, main_pc,
                   num_started, work_queue, cur, exc, lock,
                   results, errors, cb_calls, storage, articles, session, docs,
                   meta, persist_tried, ret>>

\* file = work_queue.get_nowait(); queue.Empty breaks the loop
GetNowait(w) ==
    /\ wpc[w] = "get"
    /\ IF work_queue = <<>>
       THEN /\ Goto(w, "exit")
            /\ UNCHANGED <<work_queue, cur>>
       ELSE /\ cur' = [cur EXCEPT ![w] = Head(work_queue)]
            /\ work_queue' = Tail(work_queue)
            /\ Goto(w, "save")
    /\ UNCHANGED <<nonbatch, total_files, max_workers, has_callback, main_pc,
                   num_started, exc, lock, results, errors,
                   cb_calls, storage, articles, session, docs, meta, persist_tried,
                   ret>>

\* success, error, filepath = self.file_handler.save_file(file)
SaveFile(w) ==
    /\ wpc[w] = "save"
    /\ \E ok \in BOOLEAN :
         IF ok
         THEN /\ storage' = storage \cup {cur[w]}
              /\ Goto(w, "extract")
              /\ UNCHANGED exc
         ELSE /\ Raise(w, ErrSave)
              /\ UNCHANGED storage
    /\ UNCHANGED <<nonbatch, total_files, max_workers, has_callback, main_pc,
                   num_started, work_queue, cur, lock, results,
                   errors, cb_calls, articles, session, docs, meta, persist_tried,
                   ret>>

\* self.file_handler.delete_file(filepath)
DeleteFile(f) == storage \ {f}

\* metadata = self.pdf_service.extract_metadata(filepath); on failure the
\* upload is deleted and the file raises
ExtractMetadata(w) ==
    /\ wpc[w] = "extract"
    /\ \E d \in BatchDocs :
         LET m == extract_metadata(d) IN
         /\ docs' = (cur[w] :> d) @@ docs
         /\ meta' = (cur[w] :> m) @@ meta
         /\ IF m.raised
            THEN /\ Raise(w, <<"Exception", "extract_text">>)
                 /\ UNCHANGED storage
            ELSE IF ~m.success
            THEN /\ storage' = DeleteFile(cur[w])
                 /\ Raise(w, ErrExtract(m.error))
            ELSE /\ Goto(w, "persist")
                 /\ UNCHANGED <<storage, exc>>
    /\ UNCHANGED <<nonbatch, total_files, max_workers, has_callback, main_pc,
                   num_started, work_queue, cur, lock, results,
                   errors, cb_calls, articles, session, persist_tried, ret>>

\* articulo = self._create_article_from_metadata(...): the queries, the
\* flushes and the commit on this worker's db.session.  A flush or commit
\* that fails leaves the session failed until rollback(), which _worker
\* never calls; every later statement on that session raises.
CreateArticle(w) ==
    /\ wpc[w] = "persist"
    /\ persist_tried' = persist_tried \cup {cur[w]}
    /\ IF session[w] = "failed"
       THEN /\ Raise(w, ErrSession)
            /\ UNCHANGED <<articles, session>>
       ELSE \E ok \in BOOLEAN :
              IF ok
              THEN /\ articles' = articles \cup {cur[w]}
                   /\ Goto(w, "with_lock")
                   /\ UNCHANGED <<session, exc>>
              ELSE /\ session' = [session EXCEPT ![w] = "failed"]
                   /\ Raise(w, ErrPersist)
                   /\ UNCHANGED articles
    /\ UNCHANGED <<nonbatch, total_files, max_workers, has_callback, main_pc,
                   num_started, work_queue, cur, lock, results,
                   errors, cb_calls, storage, docs, meta, ret>>

\* Faulty variant: the success path enters its block without the lock
\* being free
AcquireForResultUnguarded(w) ==
    /\ wpc[w] = "with_lock"
    /\ lock' = w
    /\ Goto(w, "append_result")
    /\ UNCHANGED <<nonbatch, total_files, max_workers, has_callback, main_pc,
                   num_started, work_queue, cur, exc, results,
                   errors, cb_calls, storage, articles, session, docs, meta,
                   persist_tried, ret>>

\* with self.lock: (success path)
AcquireForResult(w) ==
    /\ wpc[w] = "with_lock"
    /\ lock = 0
    /\ lock' = w
    /\ Goto(w, "append_result")
    /\ UNCHANGED <<nonbatch, total_files, max_workers, has_callback, main_pc,
                   num_started, work_queue, cur, exc, results,
                   errors, cb_calls, storage, articles, session, docs, meta,
                   persist_tried, ret>>

\* after a loop iteration: finally: work_queue.task_done(), back to while
NextIteration(w) ==
    /\ cur' = [cur EXCEPT ![w] = 0]
    /\ Goto(w, "while")

\* self.results.append(result); without a callback the lock is released
AppendResult(w) ==
    /\ wpc[w] = "append_result"
    /\ results' = Append(results, [filename |-> cur[w],
                                   confidence |-> meta[cur[w]].confidence])
    /\ IF has_callback
       THEN /\ Goto(w, "callback")
            /\ UNCHANGED <<lock, cur>>
       ELSE /\ lock' = 0
            /\ NextIteration(w)
    /\ UNCHANGED <<nonbatch, total_files, max_workers, has_callback, main_pc,
                   num_started, work_queue, exc, errors,
                   cb_calls, storage, articles, session, docs, meta, persist_tried,
                   ret>>

\* progress = len(self.results) + len(self.errors)
\* progress_callback(progress, total); the callback returns or raises, and
\* leaving the with block releases the lock either way
ProgressCallback(w) ==
    /\ wpc[w] = "callback"
    /\ cb_calls' = Append(cb_calls, <<Len(results) + Len(errors), total_files>>)
    /\ lock' = 0
    /\ \E raises \in BOOLEAN :
         IF raises
         THEN /\ Raise(w, ErrCallback)
              /\ UNCHANGED cur
         ELSE /\ NextIteration(w)
              /\ UNCHANGED exc
    /\ UNCHANGED <<nonbatch, total_files, max_workers, has_callback, main_pc,
                   num_started, work_queue, results, errors,
                   storage, articles, session, docs, meta, persist_tried, ret>>

\* except Exception as e: ... with self.lock:
AcquireForError(w) ==
    /\ wpc[w] = "except"
    /\ lock = 0
    /\ lock' = w
    /\ Goto(w, "append_error")
    /\ UNCHANGED <<nonbatch, total_files, max_workers, has_callback, main_pc,
                   num_started, work_queue, cur, exc, results,
                   errors, cb_calls, storage, articles, session, docs, meta,
                   persist_tried, ret>>

\* Faulty variant: the error path leaves without releasing the lock
ReleasedLockKept(w) == w

\* the lock once the with block is left
ReleasedLock(w) == 0

\* self.errors.append({'filename': ..., 'error': str(e)})
AppendError(w) ==
    /\ wpc[w] = "append_error"
    /\ errors' = Append(errors, [filename |-> cur[w], error |-> exc[w]])
    /\ lock' = ReleasedLock(w)
    /\ exc' = [exc EXCEPT ![w] = NoExc]
    /\ NextIteration(w)
    /\ UNCHANGED <<nonbatch, total_files, max_workers, has_callback, main_pc,
                   num_started, work_queue, results, cb_calls,
                   storage, articles, session, docs, meta, persist_tried, ret>>

WorkerStep(w) ==
    \/ WhileNotEmpty(w)
    \/ GetNowait(w)
    \/ SaveFile(w)
    \/ ExtractMetadata(w)
    \/ CreateArticle(w)
    \/ AcquireForResult(w)
    \/ AppendResult(w)
    \/ ProgressCallback(w)
    \/ AcquireForError(w)
    \/ AppendError(w)

MainStep ==
    \/ ProcessFilesCall
    \/ ProcessFilesReturn

Next == MainStep \/ \E w \in Workers : WorkerStep(w)

Init == XInit /\ BInit /\ FInit /\ SIdle /\ UInit /\ AInit /\ GInit /\ CIdle

Spec == Init /\ [][Next]_vars

\* Some thread that can take a step eventually takes one: the scheduler
\* does not stop every runnable thread forever.
FairSpec == Spec /\ WF_vars(Next)

\* =====================================================================
\* Properties
\* =====================================================================

Returned == main_pc = "done"

\* how often file f is named in a list of result or error entries
Occurrences(list, f) == Cardinality({i \in DOMAIN list : list[i].filename = f})

\* the files whose text extraction failed, and the files for which every
\* step (save, extraction, persistence) succeeded
ExtractionFailed(f) == f \in DOMAIN meta /\ ~meta[f].success
WellFormed(f) == f \in DOMAIN meta /\ meta[f].success /\ f \in articles

\* ---------------------------------------------------------------- C1
\* C1: given a progress_callback, when process_files returns for N files
\* the callback has been called exactly N times, with first arguments
\* 1, 2, ..., N in that order and second argument N, whatever the
\* interleaving and whatever files failed.
C1_CallbackCountsEveryFile ==
    (Returned /\ has_callback) =>
        cb_calls = [i \in 1..total_files |-> <<i, total_files>>]

\* ---------------------------------------------------------------- C2
\* C2: when process_files returns, every input file is named exactly once
\* across results and error_details, total == N and
\* success + errors == total.
C2_EveryFileExactlyOnce ==
    Returned =>
        /\ \A f \in Files :
             Occurrences(ret.results, f) + Occurrences(ret.error_details, f) = 1
        /\ ret.total = total_files
        /\ ret.success + ret.errors = ret.total

\* ---------------------------------------------------------------- C3
\* C3: when exactly one file K fails extraction and every other file is
\* well-formed, process_files returns success == N-1 and errors == 1, the
\* upload of K is gone from storage and no article exists for K.
C3_OneCorruptFile ==
    Returned =>
        \A k \in Files :
            (ExtractionFailed(k) /\ \A f \in Files \ {k} : WellFormed(f)) =>
                /\ ret.success = total_files - 1
                /\ ret.errors = 1
                /\ k \notin storage
                /\ k \notin articles

\* ---------------------------------------------------------------- C4
\* C4: process_files returns only once every thread it started has exited
\* and the queue is empty, and (every step of every thread terminating) it
\* eventually returns.
C4_ReturnsAfterWorkersExit ==
    /\ [](Returned => /\ \A w \in 1..num_started : wpc[w] = "exit"
                      /\ work_queue = <<>>)
    /\ <>Returned

C4_Witness ==
    /\ Returned
    /\ num_started = 2
    /\ Len(results) + Len(errors) = total_files
    /\ errors # <<>>

\* ---------------------------------------------------------------- C5
\* C5: process_files starts exactly min(max_workers, N) threads (none, and
\* an all-zero result, when N = 0), and never more than min(max_workers, N)
\* files are being processed at once.
C5_PoolIsMinOfWorkersAndFiles ==
    /\ main_pc # "call" => num_started = Min(max_workers, total_files)
    /\ Cardinality({w \in Workers : wpc[w] # "unborn"}) <= Min(max_workers, total_files)
    /\ Cardinality({w \in Workers : cur[w] # 0}) <= Min(max_workers, total_files)
    /\ (Returned /\ total_files = 0) =>
           /\ num_started = 0
           /\ ret.total = 0 /\ ret.success = 0 /\ ret.errors = 0
           /\ ret.results = <<>> /\ ret.error_details = <<>>

C5_Witness ==
    /\ total_files = 2
    /\ max_workers = 2
    /\ cur[1] # 0
    /\ cur[2] # 0

\* ---------------------------------------------------------------- C6
\* C6: a file whose article persistence fails is reported once in
\* error_details, the articles committed for other files stay stored and
\* counted in results, and no file processed afterwards is made to fail by
\* that earlier failure.
C6_PersistenceFailureIsIsolated ==
    Returned =>
        /\ \A f \in persist_tried \ articles :
             /\ Occurrences(ret.error_details, f) = 1
             /\ Occurrences(ret.results, f) = 0
        /\ \A f \in articles : Occurrences(ret.results, f) = 1
        /\ \A i \in DOMAIN ret.error_details :
             ret.error_details[i].error # ErrSession

\* ---------------------------------------------------------------- C7
\* C7: extract_text on a path that does not exist fails with the not-found
\* message; on a path that exists and whose suffix is not .pdf in any
\* letter case it fails with the not-a-PDF message; in both cases the text
\* is absent and no backend is invoked.
C7_PreconditionsBeforeBackends ==
    xcall # "none" =>
        /\ ~xdoc.exists =>
             /\ ~xtext.success /\ xtext.text = NoText
             /\ xtext.error = MsgNotFound
             /\ xtext.calls = <<>>
        /\ (xdoc.exists /\ xdoc.suffix \notin {".pdf", ".PDF"}) =>
             /\ ~xtext.success /\ xtext.text = NoText
             /\ xtext.error = MsgNotPdf
             /\ xtext.calls = <<>>

C7_Witness ==
    /\ xcall = "extract_text"
    /\ xdoc.exists
    /\ xdoc.suffix = ".txt"
    /\ xdoc.out["pdfplumber"] = [raises |-> FALSE, lens |-> <<50, 50>>]
    /\ xtext.error = MsgNotPdf

\* ---------------------------------------------------------------- C8
\* what each backend gives on the document of the call, in order
BackendResult(k) ==
    CASE k = 1 -> extract_with_pdfplumber(xdoc, xmax)
      [] k = 2 -> extract_with_pypdf2(xdoc, xmax)
      [] k = 3 -> extract_with_pikepdf(xdoc, xmax)

\* the backend raised, returned no text, or text of length <= 100
Undersized(k) ==
    LET r == BackendResult(k) IN r.raised \/ r.isNone \/ r.len <= 100

PreconditionsHold == xdoc.exists /\ xdoc.suffix \in {".pdf", ".PDF"}

\* C8: on a path that passes the preconditions the backends run in the
\* order pdfplumber, PyPDF2, pikepdf; backend k is invoked if and only if
\* every earlier backend raised or gave no text or text of length <= 100;
\* the text returned is that of the first backend with more than 100
\* characters; no backend exception reaches the caller.
C8_FallbackOrder ==
    (xcall # "none" /\ PreconditionsHold) =>
        /\ ~xtext.raised
        /\ xtext.calls = SubSeq(Backends, 1, Len(xtext.calls))
        /\ \A k \in 1..3 :
             (k <= Len(xtext.calls)) <=> (\A j \in 1..(k - 1) : Undersized(j))
        /\ \A k \in 1..3 :
             (~Undersized(k) /\ \A j \in 1..(k - 1) : Undersized(j)) =>
                 /\ xtext.success
                 /\ xtext.text.by = Backends[k]
                 /\ xtext.text.len = BackendResult(k).len

C8_Witness ==
    /\ xcall = "extract_text"
    /\ PreconditionsHold
    /\ xdoc.out["pdfplumber"].raises
    /\ xdoc.out["PyPDF2"] = [raises |-> FALSE, lens |-> <<49, 49>>]
    /\ xtext.success
    /\ xtext.text.by = "pikepdf"
    /\ xtext.calls = Backends

\* ---------------------------------------------------------------- C9
\* C9: extract_text's result has success true exactly when the text is
\* present, longer than 100 and the error absent; success false exactly
\* when the text is absent and the error a non-empty message; and when all
\* three backends raise or give undersized text the result is the failure
\* with the could-not-extract-text message.
C9_ResultShape ==
    xcall # "none" =>
        /\ xtext.success <=>
             (xtext.text # NoText /\ xtext.text.len > 100 /\ xtext.error = None)
        /\ ~xtext.success <=>
             (xtext.text = NoText /\ xtext.error \notin {None, ""})
        /\ (PreconditionsHold /\ \A k \in 1..3 : Undersized(k)) =>
             (~xtext.success /\ xtext.error = MsgNoText)

C9_Witness ==
    /\ xcall = "extract_text"
    /\ PreconditionsHold
    /\ xdoc.out["pdfplumber"].raises
    /\ xdoc.out["PyPDF2"] = [raises |-> FALSE, lens |-> <<0, 0>>]
    /\ xdoc.out["pikepdf"] = [raises |-> FALSE, lens |-> <<49, 49>>]
    /\ ~xtext.success
    /\ xtext.error = MsgNoText

\* --------------------------------------------------------------- C10
\* C10: for every file whose extract_text fails, extract_metadata returned
\* success false with the extractor's message as error, every field at its
\* empty default, confidence 0 and no recognizer called, and no article
\* persistence was attempted for the file.
C10_FailedExtractionSkipsPersistence ==
    \A f \in DOMAIN meta :
        LET t == extract_text(docs[f], DEFAULT_MAX_PAGES) IN
        ~t.success =>
            /\ ~meta[f].raised
            /\ ~meta[f].success
            /\ meta[f].error = t.error
            /\ meta[f].error # None
            /\ \A fld \in {"titulo", "anio_publicacion", "doi", "issn", "resumen"} :
                 meta[f][fld] = None
            /\ \A fld \in {"autores", "palabras_clave", "emails"} :
                 meta[f][fld] = <<>>
            /\ meta[f].confidence = 0
            /\ meta[f].recognizers = {}
            /\ f \notin persist_tried
            /\ f \notin articles

C10_Witness ==
    /\ Returned
    /\ \E f \in DOMAIN meta, g \in DOMAIN meta :
         /\ meta[f].error = MsgNoText
         /\ meta[g].error = MsgNotPdf
         /\ Occurrences(errors, f) = 1
         /\ Occurrences(errors, g) = 1

\* ---------------------------------------------------------------- C11
\* C11: extract_metadata never raises: when one field recognizer raises on
\* the extracted text, that field is left at its empty default, the other
\* fields are still extracted, and a result with success true is returned.
C11_RecognizerExceptionAbsorbed ==
    (xcall = "extract_metadata" /\ xraiser # None) =>
        /\ ~xmeta.raised
        /\ xmeta.success
        /\ xmeta[xraiser] = FieldDefault(xraiser)
        /\ \A g \in AllFields \ {xraiser} : xmeta[g] = Recognize(g, xtext.text)

\* ---------------------------------------------------------------- C12
\* the fields of a result that are not empty
NonEmptyFields(m, fields) == {f \in fields : m[f] # FieldDefault(f)}

\* C12: for every result of extract_metadata, 6 x confidence is the number
\* of non-empty fields among the six core fields (confidence is kept as that
\* numerator, one of 0..6); palabras_clave and emails do not affect it, and
\* it is 0 when success is false.
C12_ConfidenceCountsCoreFields ==
    (xcall = "extract_metadata" /\ ~xmeta.raised) =>
        /\ xmeta.confidence = Cardinality(NonEmptyFields(xmeta, CoreFields))
        /\ xmeta.confidence \in 0..6
        /\ xmeta.confidence =
             extract_metadata([xdoc EXCEPT !.has = @ \cap CoreFields]).confidence
        /\ ~xmeta.success => xmeta.confidence = 0

\* three core fields and both other fields found
C12_Witness ==
    /\ xcall = "extract_metadata"
    /\ xmeta.success
    /\ ~xmeta.raised
    /\ xmeta.confidence = 3
    /\ NonEmptyFields(xmeta, AllFields \ CoreFields) = AllFields \ CoreFields

\* ---------------------------------------------------------------- C13
\* the in-range values of the four-digit tokens 19xx / 20[0-2]x that stand
\* as whole words in the first SAMPLE_CHARS characters of text t
YearTokens(t, now) ==
    LET s == Sample(t)
        tokens == {YearValAt(s, i) : i \in {j \in 1..Len(s) : YearMatchAt(s, j)}}
    IN {y \in tokens : now - YEARS_BACK <= y /\ y <= now + 1}

\* C13: extract_year returns none or an integer y with
\* currentYear-50 <= y <= currentYear+1; when it returns y, y is the largest
\* in-range token of the form 19xx or 20[0-2]x standing as a whole word in
\* the first 2000 characters, and it returns none when there is no such token.
C13_YearIsLatestInRange ==
    fcall = "extract_year" =>
        /\ fout = RNone
           \/ (fout.kind = "int" /\ fout.int \in fnow - YEARS_BACK .. fnow + 1)
        /\ IF Falsy(ftext) \/ YearTokens(ftext, fnow) = {}
           THEN fout = RNone
           ELSE /\ fout.kind = "int"
                /\ fout.int \in YearTokens(ftext, fnow)
                /\ \A y \in YearTokens(ftext, fnow) : y <= fout.int

\* two in-range years in the sample of a long text; the later one is returned
C13_Witness ==
    /\ fcall = "extract_year"
    /\ ~ftext.none
    /\ ftext.pad > 0
    /\ Cardinality(YearTokens(ftext, fnow)) = 2
    /\ fout = RInt(2023)

\* ---------------------------------------------------------------- C14
\* d has the form 10.<four or more digits>/<non-space suffix> and does not
\* end in one of . , ; : ) ] }
IsCleanDoi(d) ==
    \E n \in DOI_MIN_DIGITS..Len(d) :
        /\ Len(d) >= 3 + n + 2
        /\ SubSeq(d, 1, 3) = DOI_HEAD
        /\ \A k \in 4..3 + n : d[k] \in Digits
        /\ d[3 + n + 1] = "/"
        /\ \A k \in 3 + n + 2..Len(d) : d[k] \notin Whitespace
        /\ d[Len(d)] \notin {".", ",", ";", ":", ")", "]", "}"}

\* some DOI form stands somewhere in s
HoldsDoi(s) ==
    \E i \in 1..Len(s) : \E n \in DOI_MIN_DIGITS..Len(s) :
        /\ i + 3 + n + 1 <= Len(s)
        /\ SubSeq(s, i, i + 2) = DOI_HEAD
        /\ \A k \in i + 3..i + 2 + n : s[k] \in Digits
        /\ s[i + 3 + n] = "/"
        /\ s[i + 3 + n + 1] \notin Whitespace

\* s without its first n characters
Drop(s, n) == SubSeq(s, n + 1, Len(s))

\* C14: for a DOI d of the form 10.<4+ digits>/<non-space suffix> that does
\* not end in . , ; : ) ] }, extract_doi('DOI: ' + d) and
\* extract_doi('https://doi.org/' + d) return exactly d; whatever the text,
\* the returned DOI does not end in one of those characters or a space and
\* starts at "10." (the doi: or doi.org prefix is not part of it); a text
\* that holds no DOI returns none.
C14_DoiRoundTrip ==
    fcall = "extract_doi" =>
        /\ \A pre \in {<<"D", "O", "I", ":", " ">>, DOI_URL_S} :
             (/\ ~ftext.none
              /\ Len(ftext.chars) > Len(pre)
              /\ SubSeq(ftext.chars, 1, Len(pre)) = pre
              /\ IsCleanDoi(Drop(ftext.chars, Len(pre))))
             => fout = RStr(Drop(ftext.chars, Len(pre)))
        /\ fout.kind \in {"none", "str"}
        /\ fout.kind = "str" =>
             /\ Len(fout.str) > 3
             /\ SubSeq(fout.str, 1, 3) = DOI_HEAD
             /\ fout.str[Len(fout.str)] \notin DOI_STRIP
             /\ \A k \in DOMAIN fout.str : fout.str[k] \notin Whitespace
        /\ (Falsy(ftext) \/ ~HoldsDoi(ftext.chars)) => fout = RNone

\* the address form of a DOI whose suffix holds a dot and a parenthesis
C14_Witness ==
    /\ fcall = "extract_doi"
    /\ ~ftext.none
    /\ Len(ftext.chars) > Len(DOI_URL_S)
    /\ SubSeq(ftext.chars, 1, Len(DOI_URL_S)) = DOI_URL_S
    /\ IsCleanDoi(Drop(ftext.chars, Len(DOI_URL_S)))
    /\ fout.kind = "str"
    /\ \E k \in DOMAIN fout.str : fout.str[k] = ")"
    /\ fout = RStr(Drop(ftext.chars, Len(DOI_URL_S)))

\* ---------------------------------------------------------------- C15
\* four digits, a hyphen, three digits, then a digit or X (either case)
IsCanonicalIssn(v) ==
    /\ Len(v) = 9
    /\ \A k \in 1..4 : v[k] \in Digits
    /\ v[5] = "-"
    /\ \A k \in 6..8 : v[k] \in Digits
    /\ v[9] \in Digits \cup {"X", "x"}

\* the marker ISSN stands somewhere in s, in any case
HoldsIssnMarker(s) == \E i \in 1..Len(s) : LiteralAt(s, i, ISSN_LABEL)

\* C15: extract_issn returns none or a string in the canonical form
\* XXXX-XXXX, whichever separator stood between the two halves in the text
\* (hyphen, any whitespace character, or nothing); a text without an ISSN
\* marker returns none.
C15_IssnIsCanonical ==
    fcall = "extract_issn" =>
        /\ fout = RNone \/ (fout.kind = "str" /\ IsCanonicalIssn(fout.str))
        /\ (Falsy(ftext) \/ ~HoldsIssnMarker(ftext.chars)) => fout = RNone

\* ---------------------------------------------------------------- C16
ListRecognizers == {"extract_authors", "extract_keywords", "extract_emails"}

\* the text given to the recognizer was the empty string or None
GivenNoText ==
    CASE fcall \in {"extract_authors", "extract_title"} -> FalsyLines(ftext)
      [] fcall \in {"extract_abstract"} -> FalsyTokens(ftext)
      [] OTHER -> Falsy(ftext)

\* C16: each of the eight recognizers returns its empty default (none for
\* the optional fields, an empty list for the list fields), without raising,
\* when given the empty string or None.
C16_EmptyTextGivesDefault ==
    (fcall # "none" /\ GivenNoText) =>
        fout = IF fcall \in ListRecognizers THEN RList(<<>>) ELSE RNone

\* a list recognizer given None
C16_Witness ==
    /\ fcall = "extract_emails"
    /\ ftext.none
    /\ fout = RList(<<>>)

\* ---------------------------------------------------------------- C17
\* the names extract_authors collects, each once, in the order in which
\* they first appear in the text
RECURSIVE FirstOccurrences(_)
FirstOccurrences(xs) ==
    IF xs = <<>> THEN <<>>
    ELSE LET rest == FirstOccurrences(SubSeq(xs, 1, Len(xs) - 1))
         IN IF xs[Len(xs)] \in Range(rest) THEN rest ELSE Append(rest, xs[Len(xs)])

\* C17: an article created from a text that yields k authors gets k author
\* links with orden 1..k in the order in which the names appear in the
\* text, and exactly the orden-1 link, the first author named in the text,
\* is marked es_corresponsal; the same text always yields the same order.
C17_AuthorLinksFollowTextOrder ==
    (fcall = "extract_authors" /\ ~FalsyLines(ftext)) =>
        LET names == FirstOccurrences(AuthorsFound(ftext))
        IN /\ Len(flinks) = Len(fout.list)
           /\ \A i \in DOMAIN flinks :
                /\ flinks[i].orden = i
                /\ flinks[i].es_corresponsal = (i = 1)
           /\ [i \in DOMAIN flinks |-> flinks[i].autor] = names

\* ---------------------------------------------------------------- C18
\* C18: after any sequence of update_progress calls, from any threads and
\* with any arguments, every snapshot get_progress returns has
\* processed = success + errors.
C18_ProcessedIsSuccessPlusErrors ==
    us_progress.taken =>
        us_progress.processed = us_progress.success + us_progress.errors

\* ---------------------------------------------------------------- C19
\* the request has no files, only entries with an empty filename, or more
\* than 10 files
Rejectable(files) ==
    \/ Len(files) = 0
    \/ Len(files) > MAX_FILES
    \/ \A i \in DOMAIN files : files[i] = ""

\* C19: upload_pdfs answers a request with no files, with only
\* empty-filename entries or with more than 10 files with HTTP 400 before
\* any file is saved, extracted or persisted; every other request gets HTTP
\* 200 with the payload of the batch, even when every file in it fails,
\* unless an exception escapes the batch (HTTP 500).
C19_UploadValidation ==
    up_response # NoResponse =>
        IF Rejectable(up_files)
        THEN /\ up_response.code = 400
             /\ up_response.body.success = FALSE
             /\ up_processor = 0
             /\ up_batch = NoBatch
        ELSE \/ /\ up_response.code = 200
                /\ up_batch.called /\ ~up_batch.raised
                /\ up_batch.files = SelectSeq(up_files, LAMBDA f : f # "")
                /\ up_response.body.total = Len(up_batch.files)
                /\ up_response.body.success + up_response.body.errors
                     = up_response.body.total
             \/ /\ up_response.code = 500
                /\ up_response.body.success = FALSE
                /\ (up_batch.called => up_batch.raised)

\* a request of ten entries, some of them without a filename, every named
\* file of which fails: HTTP 200
C19_Witness ==
    /\ Len(up_files) = MAX_FILES
    /\ \E i \in DOMAIN up_files : up_files[i] = ""
    /\ up_response.code = 200
    /\ up_response.body.success = 0
    /\ up_response.body.errors > 1

\* ---------------------------------------------------------------- C20
\* the number of links of each pair
LinkCounts(links) == [p \in Pairs |-> Len(links[p])]

Linked(links, p) == Len(links[p]) >= 1

\* what a call that just returned did to the links
C20Step ==
    LET p == <<au_call'.article_id, au_call'.author_id>>
    IN au_call'.op # "none" =>
        IF p \notin Pairs
        THEN ~au_call'.ok /\ articulo_autor' = articulo_autor
        ELSE /\ (au_call'.op = "add_author" /\ Linked(articulo_autor, p)) =>
                    /\ ~au_call'.ok
                    /\ au_call'.error # None
                    /\ articulo_autor' = articulo_autor
             /\ (au_call'.op = "remove_author" /\ ~Linked(articulo_autor, p)) =>
                    /\ ~au_call'.ok
                    /\ au_call'.error # None
                    /\ articulo_autor' = articulo_autor
             /\ (au_call'.op = "remove_author" /\ Linked(articulo_autor, p)) =>
                    IF au_call'.ok
                    THEN LinkCounts(articulo_autor') =
                            [LinkCounts(articulo_autor) EXCEPT ![p] = @ - 1]
                    ELSE /\ au_call'.error = "Error al remover el autor"
                         /\ articulo_autor' = articulo_autor

\* C20: after any sequence of add_author and remove_author calls each
\* (article, author) pair has at most one link: add_author for a linked
\* pair returns (False, error) and leaves the links unchanged, remove_author
\* for a linked pair removes exactly that link (unless the database raises,
\* and then nothing changes), and remove_author for an unlinked pair
\* returns (False, error) and changes nothing.
C20_AtMostOneLinkPerPair ==
    /\ [](\A p \in Pairs : Len(articulo_autor[p]) <= 1)
    /\ [][C20Step]_vars

\* remove_author just removed the link of a pair and another author of
\* the article stays linked
C20_Witness ==
    /\ au_call.op = "remove_author"
    /\ au_call.ok
    /\ articulo_autor[<<au_call.article_id, au_call.author_id>>] = <<>>
    /\ \E u \in AutorIds : Len(articulo_autor[<<au_call.article_id, u>>]) = 1

\* ---------------------------------------------------------------- C21
\* the links of an article
LinksOf(links, article_id) == [u \in AutorIds |-> links[<<article_id, u>>]]

\* what a delete or restore call that just returned did
C21Effects ==
    LET c == ar_call'
        a == c.article_id
    IN c.op # "none" =>
        IF ~ArticuloExists(a)
        THEN /\ ~c.ok
             /\ c.error \in {"No se encontro el articulo",
                             "No se puede eliminar el articulo",
                             "Error al eliminar el articulo",
                             "Error al restaurar el articulo"}
             /\ articulos' = articulos
             /\ articulo_autor' = articulo_autor
        ELSE IF ~c.ok
        THEN articulos' = articulos /\ articulo_autor' = articulo_autor
        ELSE /\ \A b \in ArticuloIds \ {a} :
                  /\ articulos'[b] = articulos[b]
                  /\ LinksOf(articulo_autor', b) = LinksOf(articulo_autor, b)
             /\ CASE c.op = "delete" /\ c.soft ->
                       /\ articulos'[a] = ArticuloRow(FALSE)
                       /\ articulo_autor' = articulo_autor
                  [] c.op = "delete" /\ ~c.soft ->
                       /\ ~articulos'[a].exists
                       /\ \A u \in AutorIds : articulo_autor'[<<a, u>>] = <<>>
                  [] c.op = "restore" ->
                       /\ articulos'[a] = ArticuloRow(TRUE)
                       /\ articulo_autor' = articulo_autor

\* a restore that follows the soft delete of the same article
RestoresSoftDeleted ==
    /\ ar_call.op = "delete" /\ ar_call.soft /\ ar_call.ok
    /\ ar_call'.op = "restore" /\ ar_call'.ok
    /\ ar_call'.article_id = ar_call.article_id

Locked == {"append_result", "callback", "append_error"}
LockFree == {"save", "extract", "persist"}

\* C22: at no point are two workers appending to results or errors or
\* executing the progress callback: every change of the two collections and
\* every callback call is made by the worker holding the lock, while file
\* saving, text extraction and field recognition run without holding it.
C22_OutcomesOnlyUnderLock ==
    /\ [](/\ \A w \in Workers : wpc[w] \in Locked => lock = w
          /\ \A w \in Workers : wpc[w] \in LockFree => lock # w
          /\ Cardinality({w \in Workers : wpc[w] \in Locked}) <= 1)
    /\ [][(results' # results \/ errors' # errors \/ cb_calls' # cb_calls) =>
             (lock \in Workers /\ wpc[lock] \in Locked /\ wpc'[lock] # wpc[lock])]_vars

\* one worker is in the callback, holding the lock, while the other one
\* extracts a file
C22_Witness ==
    \E w, v \in Workers :
        /\ wpc[w] = "callback" /\ lock = w
        /\ wpc[v] = "extract"

\* ---------------------------------------------------------------- C23
\* the indices, counted from 0, of the lines of the text given
TextLineIndices == 0..(ftext.skip + Len(ftext.lines) - 1)

OccurrencesOfAny(tokens, keywords, from) ==
    UNION {Matches(tokens, keywords[k], from) : k \in DOMAIN keywords}

\* C24: extract_abstract starts the abstract right after the earliest
\* whole-word occurrence in the text of any abstract keyword, ends it at
\* the nearest following keywords-section or introduction marker (or at the
\* end of the text), collapses whitespace runs to single spaces and returns
\* it only if its length is strictly between 50 and 2000, else none.
C24_AbstractAfterEarliestKeyword ==
    (fcall = "extract_abstract" /\ ~FalsyTokens(ftext)) =>
        LET tokens == ftext.tokens
            starts == OccurrencesOfAny(tokens, ABSTRACT_KEYWORDS, 0)
        IN IF starts = {} THEN fout = RNone
           ELSE LET start == MinOf(starts)
                    ends == OccurrencesOfAny(tokens,
                               KEYWORDS_SECTION \o INTRODUCTION_KEYWORDS, start)
                    end == IF ends = {} THEN Len(tokens) + 1 ELSE MinOf(ends)
                    abstract == CollapseGaps(StripTokens(
                                    SubSeq(tokens, start + 1, end - 1)))
                IN IF 50 < TokensLen(abstract) /\ TokensLen(abstract) < 2000
                   THEN fout = RTokens(abstract)
                   ELSE fout = RNone

\* ---------------------------------------------------------------- C25
\* the characters the keywords are taken from, as the claim has it: at
\* most 500 characters after the section word that comes first in the
\* text and the colon and whitespace that follow it, cut at the first
\* blank line or period and newline
KeywordsRegion(chars) ==
    LET lower == TextLower(chars)
        marks == {i \in DOMAIN lower :
                    \E k \in DOMAIN KEYWORDS_SECTION :
                        SectionWordAt(lower, i, KEYWORDS_SECTION[k])}
    IN IF marks = {} THEN <<>>
       ELSE LET start == MinOf(marks) + 1
                         + RunLength(lower, MinOf(marks) + 1, IsColonOrSpace)
            IN CutAtEnd(SubSeq(chars, start, Min(Len(chars), start + 499)))

\* xs occurs in ys as one piece
OccursIn(xs, ys) ==
    \E i \in 0..(Len(ys) - Len(xs)) : SubSeq(ys, i + 1, i + Len(xs)) = xs

\* C25: every keyword extract_keywords returns is trimmed and longer than
\* 2, the list has at most 15 entries, taken from at most the 500
\* characters that follow the first keywords-section marker, cut at the
\* first blank line or period and newline; with no marker the list is empty.
C25_KeywordsTrimmedAndLong ==
    (fcall = "extract_keywords" /\ ~Falsy(ftext)) =>
        LET region == KeywordsRegion(ftext.chars)
        IN /\ Len(fout.list) <= 15
           /\ \A k \in DOMAIN fout.list :
                LET kw == fout.list[k]
                IN /\ Len(kw) > 2
                   /\ ~IsSpace(kw[1]) /\ ~IsSpace(kw[Len(kw)])
                   /\ OccursIn(kw, region)
           /\ KeywordsStart(TextLower(ftext.chars)) = 0 => fout.list = <<>>

\* ---------------------------------------------------------------- C27
\* C27: once process_files has returned, no file named in error_details has
\* a saved upload left in storage, whichever step it failed at, and every
\* upload still in storage belongs to a file an article was created for.
C27_NoUploadLeftForFailedFiles ==
    Returned =>
        /\ \A i \in DOMAIN ret.error_details :
             ret.error_details[i].filename \notin storage
        /\ storage \subseteq articles

\* ---------------------------------------------------------------- C29
\* the values the comment of self.status lists
SessionStatuses == {"processing", "completed", "failed"}

\* thread t leaves update_progress in this step
UpdateProgressReturns(t) ==
    us_pc[t] = "update_progress" /\ us_pc'[t] = "idle"

\* one step of the session: a call of update_progress whose processed
\* argument reaches total_files leaves the status 'completed', any other
\* call leaves the status as it was, nothing else changes the status, and a
\* 'completed' status stays
C29Step ==
    /\ \A t \in Callers :
         UpdateProgressReturns(t) =>
             us_status' = IF us_args[t].processed >= us_total_files
                          THEN "completed" ELSE us_status
    /\ us_status' # us_status =>
         \E t \in Callers :
             /\ UpdateProgressReturns(t)
             /\ us_args[t].processed >= us_total_files
    /\ us_status = "completed" => us_status' = "completed"

\* C29: the status of an UploadSession is 'processing' from creation,
\* becomes 'completed' at the first update_progress call whose processed
\* argument is at least total_files, never goes back to 'processing' after
\* that, and is always one of processing, completed, failed.
C29_StatusLifecycle ==
    /\ us_status = "processing"
    /\ [](us_status \in SessionStatuses)
    /\ [][C29Step]_vars

\* a completed session that a later call gave a processed below total_files
C29_Witness ==
    /\ us_status = "completed"
    /\ us_processed < us_total_files
    /\ us_success + us_errors >= 2

\* ---------------------------------------------------------------- C26
\* a call of get_upload_session or cleanup_old_sessions returns in this step
RegistryCallReturns(op) ==
    /\ rg_calls' = rg_calls + 1
    /\ rg_pc' = rg_pc
    /\ rg_call'.op = op

\* the sessions of the registry whose age in hours exceeds max_age_hours
OlderThan(max_age_hours) ==
    {id \in DOMAIN upload_sessions :
       clock - upload_sessions[id].start_time > max_age_hours * TicksPerHour}

C26Step ==
    /\ RegistryCallReturns("cleanup") =>
         LET old == OlderThan(rg_call'.max_age_hours)
         IN /\ DOMAIN upload_sessions' = DOMAIN upload_sessions \ old
            /\ rg_call'.returned = Cardinality(old)
            /\ \A id \in DOMAIN upload_sessions \ old :
                 upload_sessions'[id] = upload_sessions[id]
    /\ RegistryCallReturns("get") =>
         /\ upload_sessions' = upload_sessions
         /\ rg_call'.returned =
              IF rg_call'.session_id \in DOMAIN upload_sessions
              THEN RSession(upload_sessions[rg_call'.session_id])
              ELSE RNone

\* C26: cleanup_old_sessions(max_age_hours) removes from the registry
\* exactly the sessions whose age exceeds max_age_hours and returns their
\* number; every younger session stays as it was and get_upload_session
\* returns it; get_upload_session of an id that is not in the registry,
\* purged or never created, returns none.
C26_CleanupRemovesExactlyTheOld == [][C26Step]_vars

\* a cleanup that removed a session and kept a younger one
C26_Witness ==
    /\ rg_call.op = "cleanup"
    /\ rg_call.returned >= 1
    /\ upload_sessions # <<>>

\* ---------------------------------------------------------------- C30
\* thread t registers its session in this step
RegisterReturns(t) == rg_pc[t] = "register" /\ rg_pc'[t] = "idle"

C30Step ==
    \A t \in Callers :
        RegisterReturns(t) =>
            /\ rg_new[t].session_id \notin DOMAIN upload_sessions
            /\ Cardinality(DOMAIN upload_sessions')
                 = Cardinality(DOMAIN upload_sessions) + 1
            /\ \A id \in DOMAIN upload_sessions :
                 /\ id \in DOMAIN upload_sessions'
                 /\ upload_sessions'[id] = upload_sessions[id]

\* C30: every call of create_upload_session registers its session under a
\* session_id that no session of the registry has, so that the registry
\* grows by one entry and no session in it is replaced, also when calls
\* are made concurrently or within one clock reading.
C30_SessionIdsAreFresh == [][C30Step]_vars

\* ---------------------------------------------------------------- C28
\* no worker is inside _create_article_from_metadata
BatchOver == \A w \in Workers : fc_pc[w] \in {"idle", "done", "failed"}

\* C28: after a batch, whatever the interleaving of the workers, the tables
\* hold at most one TipoProduccion named 'Articulo cientifico', at most one
\* Estado named 'Publicado' and at most one Autor of each (nombre,
\* apellidos) the batch looked up, also when several workers found the row
\* missing at the same time.
C28_FindOrCreateMakesNoDuplicate ==
    BatchOver => \A key \in LookupKeys : db_rows[key] <= 1
====
